---- MODULE Spec2Model ----
(***************************************************************************)
(* Deye Cloud Control: the authenticated API client (api.py) and the       *)
(* refresh coordinator (__init__.py) as a state machine.                   *)
(*                                                                         *)
(* A coroutine is modelled between its suspension points: one action runs  *)
(* from the arrival of a network response up to the next network send.     *)
(***************************************************************************)
EXTENDS Integers, Sequences, FiniteSets, TLC

\* ------------------------------------------------------------------------
\* Program constants
\* ------------------------------------------------------------------------
TOKEN_EXPIRY_BUFFER == 300
DEFAULT_EXPIRES_IN == 3600
MAX_DEVICES_PER_REQUEST == 10
DEFAULT_SCAN_INTERVAL == 60
SCAN_INTERVAL_MIN == 30
SCAN_INTERVAL_MAX == 3600
BATCH_SIZE == 10

\* ------------------------------------------------------------------------
\* Bounds of the model
\* ------------------------------------------------------------------------
\* Clock epochs: the clock visits the instants around k * 3300, k <= MaxEpochs.
MaxEpochs == 1
\* Number of distinct tokens the login endpoint hands out.
MaxIssued == 2
\* Number of failing responses the remote service gives to the refresh cycle.
MaxFaults == 3
\* Longest serial list a direct caller passes to get_device_latest_data.
MaxSerials == 11
\* Number of entity write methods called.
MaxWrites == 1
\* Number of the keys a switch looks up that the snapshot holds a value for.
MaxKeys == 2

VARIABLES
    now,            \* time.time()
    access_token,   \* DeyeCloudClient._access_token (0 is None)
    token_expiry,   \* DeyeCloudClient._token_expiry
    issued,         \* remote service: number of tokens handed out so far
    tok,            \* the login that produced the cached token: [T, S]
    rq,             \* per task: the client call in progress
    cyc,            \* frame of the running _async_update_data
    coord_data,     \* DataUpdateCoordinator.data, what consumers read
    stations,       \* DeyeCloudDataUpdateCoordinator.stations
    devices,        \* DeyeCloudDataUpdateCoordinator.devices
    last_result,    \* how the last refresh cycle ended
    heard,          \* what the client calls of the running cycle gave it
    faults,         \* failing responses given to the refresh cycle so far
    srv,            \* remote service: the work mode it holds for device 1
    ent,            \* the entity method in progress, and how the last ended
    refresh,        \* coordinator.async_request_refresh() asked and not served
    setup,          \* async_setup_entry: where it is, what it has done
    entry           \* the config entry Home Assistant stores

vars == <<now, access_token, token_expiry, issued, tok, rq, cyc,
          coord_data, stations, devices, last_result, heard, faults,
          srv, ent, refresh, setup, entry>>

clientVars == <<access_token, token_expiry, issued, tok>>
coordVars == <<cyc, coord_data, stations, devices, last_result, heard>>
entVars == <<srv, ent, refresh>>

Tasks == {"cycle", "caller", "entity"}

NoToken == 0

Min(a, b) == IF a < b THEN a ELSE b

Range(s) == {s[k] : k \in 1..Len(s)}

\* ------------------------------------------------------------------------
\* Application codes of a response body.  JSON numbers and JSON strings are
\* different values: 0 and "0" are IntCode("0") and StrCode("0").
\* ------------------------------------------------------------------------
IntCode(v) == [t |-> "int", v |-> v]
StrCode(v) == [t |-> "str", v |-> v]
NoCode == [t |-> "none", v |-> ""]

\* Mutant of LOGIN_SUCCESS_CODES: only the numeric encodings are accepted.
LOGIN_SUCCESS_CODES_NUMERIC == {IntCode("0"), IntCode("1000000")}

\* api.py:83   if code not in [0, 1000000, "0", "1000000"]
LOGIN_SUCCESS_CODES ==
    {IntCode("0"), IntCode("1000000"), StrCode("0"), StrCode("1000000")}

\* Mutant of SUCCESS_CODES: only the numeric encodings are accepted.
SUCCESS_CODES_NUMERIC == {IntCode("0"), IntCode("1000000")}

\* api.py:147  if code not in [0, 1000000, "0", "1000000"]
SUCCESS_CODES ==
    {IntCode("0"), IntCode("1000000"), StrCode("0"), StrCode("1000000")}

\* api.py:150  if code in [1001, 1002, 1003, "1001", "1002", "1003", 2101017, "2101017"]
AUTH_CODES ==
    {IntCode("1001"), IntCode("1002"), IntCode("1003"),
     StrCode("1001"), StrCode("1002"), StrCode("1003"),
     IntCode("2101017"), StrCode("2101017")}

\* Codes the remote service sends besides the ones above.
OtherCodes == {IntCode("500"), StrCode("00"), IntCode("2101018"), NoCode}

\* ------------------------------------------------------------------------
\* Response data.  One record shape for every endpoint.
\*   val         opaque payload of the endpoint
\*   stations    station list of the discovery endpoint
\*   keys        serials that are keys of the device telemetry mapping
\*   workMode    the workMode field of device 1 in that mapping
\*   accessToken login: the token, 0 when the field is missing
\*   expiresIn   login: the TTL, 0 when the field is missing
\* ------------------------------------------------------------------------
NoData ==
    [val |-> "none", stations |-> <<>>, keys |-> {}, workMode |-> "none",
     accessToken |-> 0, expiresIn |-> 0]

NoResp == [kind |-> "none", code |-> NoCode, data |-> NoData]

IdleRq ==
    [phase |-> "none", op |-> "none", arg |-> <<>>, value |-> "none",
     hdr |-> NoToken,
     logins |-> 0, apis |-> 0, exc |-> "none", data |-> NoData,
     resp |-> NoResp]

\* class DeyeCloudAuthError(DeyeCloudApiError)
IsApiError(exc) == exc \in {"DeyeCloudApiError", "DeyeCloudAuthError"}

\* result = await response.json() gave a JSON object
HasBody(resp) == resp.kind \in {"body", "http_3xx"}


\* ------------------------------------------------------------------------
\* The HTTP layer (aiohttp + async_timeout), seen from the client.
\* A response is how one HTTP exchange ended:
\*   timeout    async_timeout fired                  asyncio.TimeoutError
\*   neterr     connection failed                    aiohttp.ClientError
\*   http_err   status >= 400, raise_for_status()    aiohttp.ClientResponseError
\*   http_3xx   3xx status that aiohttp hands over (300, 304, a redirect
\*              without Location), JSON object: raise_for_status() raises
\*              for a status of 400 and above only, so the body is read
\*   bad_ctype  2xx, not application/json            aiohttp.ContentTypeError
\*   nonjson    2xx, body is not JSON                json.JSONDecodeError
\*   nonobject  2xx, JSON that is not an object      (json() returns it)
\*   body       2xx, JSON object carrying code, data
\* ------------------------------------------------------------------------
HttpRaises(kind) ==
    CASE kind = "timeout" -> "asyncio.TimeoutError"
      [] kind \in {"neterr", "http_err", "bad_ctype"} -> "aiohttp.ClientError"
      [] kind = "nonjson" -> "JSONDecodeError"
      [] OTHER -> "none"

\* api.py:94   expires_in = token_data.get("expiresIn", 3600)
ExpiresIn(data) ==
    IF data.expiresIn = 0 THEN DEFAULT_EXPIRES_IN ELSE data.expiresIn

\* api.py:76-104  what obtain_token raises for a login response ("ok": returns)
ObtainTokenExc(resp) ==
    LET raised == HttpRaises(resp.kind) IN
    IF raised = "aiohttp.ClientError" THEN "DeyeCloudApiError"
    ELSE IF raised = "asyncio.TimeoutError" THEN "DeyeCloudApiError"
    ELSE IF raised # "none" THEN raised
    ELSE IF resp.kind = "nonobject" THEN "AttributeError"
    ELSE IF resp.code \notin LOGIN_SUCCESS_CODES THEN "DeyeCloudAuthError"
    ELSE IF resp.data.accessToken = NoToken THEN "DeyeCloudAuthError"
    ELSE "ok"

\* api.py:89   self._access_token = token_data.get("accessToken")
\* The assignment is made before the token is tested, so a login response
\* with a success code and no token clears the cached token.
ObtainTokenToken(resp, old) ==
    IF HasBody(resp) /\ resp.code \in LOGIN_SUCCESS_CODES
    THEN resp.data.accessToken
    ELSE old

\* api.py:95   self._token_expiry = time.time() + expires_in - TOKEN_EXPIRY_BUFFER
ObtainTokenExpiry(resp, t, old) ==
    IF ObtainTokenExc(resp) = "ok"
    THEN t + ExpiresIn(resp.data) - TOKEN_EXPIRY_BUFFER
    ELSE old

\* api.py:130-161  what _request raises for an API response ("ok": returns)
RequestExc(resp) ==
    LET raised == HttpRaises(resp.kind) IN
    IF raised = "aiohttp.ClientError" THEN "DeyeCloudApiError"
    ELSE IF raised = "asyncio.TimeoutError" THEN "DeyeCloudApiError"
    ELSE IF raised # "none" THEN raised
    ELSE IF resp.kind = "nonobject" THEN "AttributeError"
    ELSE IF resp.code \notin SUCCESS_CODES
         THEN IF resp.code \in AUTH_CODES
              THEN "DeyeCloudAuthError"
              ELSE "DeyeCloudApiError"
    ELSE "ok"

\* Mutant of NeedLogin: the token is still used at the expiry instant.
NeedLoginLate(token, expiry, t) == token = NoToken \/ t > expiry

\* api.py:126  if not self._access_token or time.time() >= self._token_expiry
NeedLogin(token, expiry, t) == token = NoToken \/ t >= expiry

\* Mutant of StartRequest: _request logs in before every API call.
StartRequestLoginFirst(op, arg, token, expiry, t) ==
    [IdleRq EXCEPT !.phase = "login", !.op = op, !.arg = arg, !.logins = 1]

\* api.py:124-128  _request up to its first network send, with token and
\* expiry cached at time t: either the login call goes out, or the cached
\* token is attached and the API call goes out.
StartRequest(op, arg, token, expiry, t) ==
    IF NeedLogin(token, expiry, t)
    THEN [IdleRq EXCEPT !.phase = "login", !.op = op, !.arg = arg,
                        !.logins = 1]
    ELSE [IdleRq EXCEPT !.phase = "api", !.op = op, !.arg = arg,
                        !.hdr = token, !.apis = 1]

\* Mutant of TooManyDevices: a list of exactly 10 serials is refused.
TooManyDevicesFrom10(arg) == Len(arg) >= MAX_DEVICES_PER_REQUEST

\* api.py:177  if len(device_sns) > 10: raise ValueError
TooManyDevices(arg) == Len(arg) > MAX_DEVICES_PER_REQUEST

\* A client operation up to its first network send.
\*   obtain_token               api.py:60-78
\*   get_device_latest_data     api.py:173-182
\*   every other operation      api.py:163-334, a plain _request("POST", ...)
Invoke(op, arg, token, expiry, t) ==
    IF op = "obtain_token"
    THEN [IdleRq EXCEPT !.phase = "login", !.op = op, !.logins = 1]
    ELSE IF op = "get_device_latest_data" /\ TooManyDevices(arg)
    THEN [IdleRq EXCEPT !.phase = "done", !.op = op, !.arg = arg,
                        !.exc = "ValueError"]
    ELSE StartRequest(op, arg, token, expiry, t)

\* ------------------------------------------------------------------------
\* The remote service and the clock
\* ------------------------------------------------------------------------
\* Instants the clock visits: 0 and the seconds around every multiple of
\* DEFAULT_EXPIRES_IN - TOKEN_EXPIRY_BUFFER.
Instants ==
    {0} \cup {k * (DEFAULT_EXPIRES_IN - TOKEN_EXPIRY_BUFFER) + d :
                  k \in 1..MaxEpochs, d \in {-1, 0, 1}}

\* TTLs the login endpoint answers with (0: the expiresIn field is missing).
ServerTTLs == {0, 299, 3601}

\* Codes by which the remote service signals success and auth rejection.
ServerOkCodes ==
    {IntCode("0"), IntCode("1000000"), StrCode("0"), StrCode("1000000")}
ServerAuthCodes ==
    {IntCode("1001"), IntCode("1002"), IntCode("1003"),
     StrCode("1001"), StrCode("1002"), StrCode("1003"),
     IntCode("2101017"), StrCode("2101017")}
ServerCodes == ServerOkCodes \cup ServerAuthCodes \cup OtherCodes

\* Serials whose telemetry the remote service holds.
Online == {1, 11}

Dev(sn) == [deviceSn |-> sn]

\* Station lists the discovery endpoint answers with.  A name is a sequence
\* of characters; id 0 and deviceSn 0 stand for a missing field.
TopoHome ==
    << [id |-> 1, name |-> <<"H", "o", "m", "e">>,
        deviceListItems |-> <<Dev(1), Dev(0), Dev(2)>>] >>
TopoMixed ==
    << [id |-> 1, name |-> <<"D", "E", "M", "O">>,
        deviceListItems |-> <<Dev(3)>>],
       [id |-> 0, name |-> <<"R", "o", "o", "f">>,
        deviceListItems |-> <<Dev(4)>>],
       [id |-> 2, name |-> <<"B", "a", "r", "n">>,
        deviceListItems |-> <<Dev(1)>>] >>
TopoLarge ==
    << [id |-> 1, name |-> <<"H", "o", "m", "e">>,
        deviceListItems |-> [k \in 1..12 |->
                                IF k < 5 THEN Dev(k)
                                ELSE IF k = 5 THEN Dev(0) ELSE Dev(k - 1)]],
       [id |-> 2, name |-> <<"B", "a", "r", "n">>,
        deviceListItems |-> <<Dev(12)>>] >>
Topologies == {<<>>, TopoHome, TopoMixed, TopoLarge}

\* The data field of a successful response of an endpoint.
ServerData(op, arg) ==
    CASE op = "get_station_list_with_devices" ->
             {[NoData EXCEPT !.val = "stations", !.stations = tp] :
                  tp \in Topologies}
      [] op = "get_device_latest_data" ->
             {[NoData EXCEPT !.val = "telemetry",
                             !.keys = Range(arg) \cap Online,
                             !.workMode = srv]}
      [] OTHER -> {[NoData EXCEPT !.val = op]}

\* Responses that carry no JSON object.
TransportResps ==
    {[kind |-> k, code |-> NoCode, data |-> NoData] :
         k \in {"timeout", "neterr", "bad_ctype", "nonjson", "nonobject"}}
     \cup
    {[kind |-> "http_err", code |-> c, data |-> NoData] :
         c \in {IntCode("0"), IntCode("1001")}}

\* Codes carried by the bodies of responses with a 3xx status.
RedirectCodes == {IntCode("0"), IntCode("1001")}

\* Every response the remote service (or the network) gives to an API call.
ApiResps(op, arg) ==
    TransportResps
     \cup {[kind |-> "http_3xx", code |-> c, data |-> NoData] :
               c \in RedirectCodes \ ServerOkCodes}
     \cup {[kind |-> "http_3xx", code |-> c, data |-> d] :
               c \in RedirectCodes \cap ServerOkCodes,
               d \in ServerData(op, arg)}
     \cup {[kind |-> "body", code |-> c, data |-> NoData] :
               c \in ServerCodes \ ServerOkCodes}
     \cup {[kind |-> "body", code |-> c, data |-> d] :
               c \in ServerOkCodes, d \in ServerData(op, arg)}

\* Every response to a login call.  A fresh token is issued + 1.
LoginResps ==
    TransportResps
     \cup {[kind |-> "http_3xx", code |-> c, data |-> NoData] :
               c \in RedirectCodes}
     \cup {[kind |-> "body", code |-> c, data |-> NoData] :
               c \in ServerCodes \ ServerOkCodes}
     \cup {[kind |-> "body", code |-> c,
            data |-> [NoData EXCEPT !.val = "token", !.accessToken = a,
                                    !.expiresIn = ttl]] :
               c \in ServerOkCodes,
               a \in {0} \cup (IF issued < MaxIssued THEN {issued + 1} ELSE {}),
               ttl \in ServerTTLs}



\* ------------------------------------------------------------------------
\* Client actions
\* ------------------------------------------------------------------------
\* The refresh cycle is given at most MaxFaults failing responses.
Budget(t, exc) ==
    /\ (t = "cycle" /\ exc # "ok") => faults < MaxFaults
    /\ faults' = IF t = "cycle" /\ exc # "ok" THEN faults + 1 ELSE faults

\* Responses task t's awaited network call can get.
RespsFor(t) ==
    IF rq[t].phase = "login" THEN LoginResps
    ELSE IF rq[t].phase = "api" THEN ApiResps(rq[t].op, rq[t].arg)
    ELSE {}

\* time.time() advances.
Tick ==
    /\ \E t \in Instants : t > now /\ now' = t
    /\ UNCHANGED <<clientVars, rq, coordVars, faults, entVars, setup, entry>>

\* api.py:76-104  the login response arrives: what obtain_token does to the
\* client (and what the remote service remembers of it)
LoginEffect(t, resp) ==
    LET exc == ObtainTokenExc(resp) IN
    /\ rq[t].phase = "login"
    /\ Budget(t, exc)
    /\ access_token' = ObtainTokenToken(resp, access_token)
    /\ token_expiry' = ObtainTokenExpiry(resp, now, token_expiry)
    /\ issued' = IF HasBody(resp) /\ resp.data.accessToken # NoToken
                 THEN issued + 1 ELSE issued
    /\ tok' = IF exc = "ok"
              THEN [T |-> now, S |-> resp.data.expiresIn] ELSE tok
    /\ UNCHANGED srv

\* api.py:127-128  the call of task t after the login response: obtain_token
\* raised, or returned to its caller, or returned into _request, which
\* attaches the token and sends the API call.
LoginRq(t, resp) ==
    LET r == rq[t]
        exc == ObtainTokenExc(resp)
    IN
    IF exc # "ok"
    THEN [r EXCEPT !.phase = "done", !.exc = exc, !.resp = resp]
    ELSE IF r.op = "obtain_token"
    THEN [r EXCEPT !.phase = "done", !.exc = "ok", !.resp = resp]
    ELSE [r EXCEPT !.phase = "api", !.apis = r.apis + 1,
                   !.hdr = ObtainTokenToken(resp, access_token)]

\* api.py:130-161  the API response arrives: _request changes nothing in the
\* client, whatever the response.  The remote service holds the work mode
\* of a set_work_mode call that it answered with success.
ApiEffect(t, resp) ==
    /\ rq[t].phase = "api"
    /\ Budget(t, RequestExc(resp))
    /\ srv' = IF rq[t].op = "set_work_mode" /\ RequestExc(resp) = "ok"
              THEN rq[t].value ELSE srv
    /\ UNCHANGED clientVars

\* Mutant of ApiRq: on an auth rejection _request logs in again and retries.
ApiRqRetry(t, resp) ==
    LET exc == RequestExc(resp) IN
    IF exc = "DeyeCloudAuthError"
    THEN [rq[t] EXCEPT !.phase = "login", !.logins = rq[t].logins + 1]
    ELSE [rq[t] EXCEPT !.phase = "done", !.exc = exc, !.resp = resp,
                       !.data = IF exc = "ok" THEN resp.data ELSE NoData]

\* api.py:145-161  the call of task t after the API response: _request
\* returned result.get("data", {}) or raised
ApiRq(t, resp) ==
    LET exc == RequestExc(resp) IN
    [rq[t] EXCEPT !.phase = "done", !.exc = exc, !.resp = resp,
                  !.data = IF exc = "ok" THEN resp.data ELSE NoData]

\* A login response arrives for task t.
LoginResponse(t, resp) ==
    /\ LoginEffect(t, resp)
    /\ rq' = [rq EXCEPT ![t] = LoginRq(t, resp)]
    /\ UNCHANGED <<now, coordVars, ent, refresh, setup, entry>>

\* An API response arrives for task t.
ApiResponse(t, resp) ==
    /\ ApiEffect(t, resp)
    /\ rq' = [rq EXCEPT ![t] = ApiRq(t, resp)]
    /\ UNCHANGED <<now, coordVars, ent, refresh, setup, entry>>

\* The operations class DeyeCloudClient defines (api.py:60-334).
ClientOperations ==
    {"obtain_token", "get_station_list", "get_device_list",
     "get_device_latest_data", "get_system_config", "get_battery_config",
     "get_tou_config", "set_solar_sell", "set_work_mode",
     "set_energy_pattern", "set_max_sell_power",
     "set_battery_charge_current", "set_battery_discharge_current",
     "set_battery_mode", "set_tou_config"}

\* Operations a caller other than the coordinator invokes on the client
\* (setup's connection test, an entity's write-control call, ...).
CallerOps == {"obtain_token", "get_device_latest_data", "set_work_mode"}

SerialList(n) == [k \in 1..n |-> k]

\* Lengths of the serial lists a caller passes.
SerialCounts ==
    {0} \cup ((MAX_DEVICES_PER_REQUEST - 1)..MaxSerials)

\* A caller invokes a client operation.
Call(op, n) ==
    /\ rq["caller"].phase \in {"none", "done"}
    /\ rq' = [rq EXCEPT !["caller"] =
                Invoke(op, SerialList(n), access_token, token_expiry, now)]
    /\ UNCHANGED <<now, clientVars, coordVars, faults, entVars, setup, entry>>

\* ------------------------------------------------------------------------
\* The refresh coordinator: _async_update_data
\* ------------------------------------------------------------------------
\* A Python dict: a sequence of [k, v] in insertion order, keys unique.
DictKeys(dict) == [n \in 1..Len(dict) |-> dict[n].k]

\* dict[key] = value
DictPut(dict, key, value) ==
    IF \E n \in 1..Len(dict) : dict[n].k = key
    THEN [n \in 1..Len(dict) |->
              IF dict[n].k = key THEN [k |-> key, v |-> value] ELSE dict[n]]
    ELSE Append(dict, [k |-> key, v |-> value])

\* str.lower() on the characters station names are made of
Lower(c) ==
    CASE c = "D" -> "d" [] c = "E" -> "e" [] c = "M" -> "m" [] c = "O" -> "o"
      [] c = "H" -> "h" [] c = "R" -> "r" [] c = "B" -> "b" [] OTHER -> c

\* Mutant of IsDemoName: the name is matched without lower().
IsDemoNameCaseSensitive(name) ==
    \E n \in 1..(Len(name) - 3) :
        SubSeq(name, n, n + 3) = <<"d", "e", "m", "o">>

\* __init__.py:135   "demo" in station_name.lower()
IsDemoName(name) ==
    LET low == [n \in 1..Len(name) |-> Lower(name[n])] IN
    \E n \in 1..(Len(low) - 3) :
        SubSeq(low, n, n + 3) = <<"d", "e", "m", "o">>

\* __init__.py:135-140  the station is skipped
SkipStation(station) == IsDemoName(station.name) \/ station.id = 0

\* Mutant of DeviceSns: the serial list is built without the filter.
DeviceSnsUnfiltered(station) ==
    [n \in 1..Len(station.deviceListItems) |->
         station.deviceListItems[n].deviceSn]

\* __init__.py:163  [dev.get("deviceSn") for dev in devices if dev.get("deviceSn")]
DeviceSns(station) ==
    LET withSn == SelectSeq(station.deviceListItems,
                            LAMBDA dev : dev.deviceSn # 0)
    IN [n \in 1..Len(withSn) |-> withSn[n].deviceSn]

\* __init__.py:124-127  data = {"stations": {}, "devices": {}}
EmptyData == [none |-> FALSE, stations |-> <<>>, devices |-> <<>>]

\* coordinator.data before the first successful refresh: None
NoSnapshot == [none |-> TRUE, stations |-> <<>>, devices |-> <<>>]

\* The locals of _async_update_data.  pc names the call being awaited;
\* s, d index stations_data and the station's deviceListItems (from 1),
\* i is the loop variable of range(0, len(device_sns), 10).
Frame0 ==
    [pc |-> "idle", stations_data |-> <<>>, s |-> 0, i |-> 0, d |-> 0,
     device_data |-> <<>>, config_data |-> {}, data |-> EmptyData]

NoCall == [op |-> "none", arg |-> <<>>]

\* The client operations the coordinator calls, as call descriptors.
\* DeyeCloudClient defines neither get_station_list_with_devices nor
\* get_station_latest_data; both are taken to be plain authenticated
\* _request calls like the operations next to them.
get_station_list_with_devices ==
    [op |-> "get_station_list_with_devices", arg |-> <<>>]
get_station_latest_data(station_id) ==
    [op |-> "get_station_latest_data", arg |-> <<station_id>>]
get_device_latest_data(device_sns) ==
    [op |-> "get_device_latest_data", arg |-> device_sns]
get_system_config(device_sn) ==
    [op |-> "get_system_config", arg |-> <<device_sn>>]
get_battery_config(device_sn) ==
    [op |-> "get_battery_config", arg |-> <<device_sn>>]
get_tou_config(device_sn) ==
    [op |-> "get_tou_config", arg |-> <<device_sn>>]

\* __init__.py:130-148  the for loop over stations_data, entered at index k:
\* the next station that is not skipped has its latest data requested; when
\* there is none the function returns data.
GoStation(f, k) ==
    LET sd == f.stations_data
        rest == {n \in k..Len(sd) : ~SkipStation(sd[n])}
    IN
    IF rest = {}
    THEN [cyc |-> f, call |-> NoCall, fin |-> "return"]
    ELSE LET n == CHOOSE m \in rest : \A o \in rest : m <= o IN
         [cyc |-> [f EXCEPT !.pc = "station_latest", !.s = n],
          call |-> get_station_latest_data(sd[n].id),
          fin |-> "no"]

\* Mutant of GoBatch: a batch that the station's list does not fill is
\* topped up with the first serials of the next station.
GoBatchAcross(f, i) ==
    LET sd == f.stations_data
        sns == DeviceSns(sd[f.s])
        more == IF f.s < Len(sd) THEN DeviceSns(sd[f.s + 1]) ELSE <<>>
        slice == SubSeq(sns, i + 1, Min(i + BATCH_SIZE, Len(sns)))
    IN
    IF i < Len(sns)
    THEN [cyc |-> [f EXCEPT !.pc = "batch", !.i = i],
          call |-> get_device_latest_data(
                      slice \o SubSeq(more, 1,
                                      Min(BATCH_SIZE - Len(slice), Len(more)))),
          fin |-> "no"]
    ELSE GoStation(f, f.s + 1)

\* Mutant of GoBatch: the rest of the serial list is sent as one batch.
GoBatchUncapped(f, i) ==
    LET sns == DeviceSns(f.stations_data[f.s]) IN
    IF i < Len(sns)
    THEN [cyc |-> [f EXCEPT !.pc = "batch", !.i = i],
          call |-> get_device_latest_data(SubSeq(sns, i + 1, Len(sns))),
          fin |-> "no"]
    ELSE GoStation(f, f.s + 1)

\* __init__.py:166-170  for i in range(0, len(device_sns), 10), entered at i
GoBatch(f, i) ==
    LET sns == DeviceSns(f.stations_data[f.s]) IN
    IF i < Len(sns)
    THEN [cyc |-> [f EXCEPT !.pc = "batch", !.i = i],
          call |-> get_device_latest_data(
                      SubSeq(sns, i + 1, Min(i + BATCH_SIZE, Len(sns)))),
          fin |-> "no"]
    ELSE GoStation(f, f.s + 1)

\* Mutant of GoDevice: no configuration is fetched, the next batch is
\* requested at once.
GoDeviceSkipped(f, d0) == GoBatch(f, f.i + BATCH_SIZE)

\* __init__.py:174-181  for dev in devices, entered after index d0: the next
\* device whose serial is a key of device_data has its configuration fetched.
GoDevice(f, d0) ==
    LET devs == f.stations_data[f.s].deviceListItems
        rest == {n \in (d0 + 1)..Len(devs) :
                     devs[n].deviceSn \in DOMAIN f.device_data}
    IN
    IF rest = {}
    THEN GoBatch(f, f.i + BATCH_SIZE)
    ELSE LET n == CHOOSE m \in rest : \A o \in rest : m <= o IN
         [cyc |-> [f EXCEPT !.pc = "system", !.d = n, !.config_data = {}],
          call |-> get_system_config(devs[n].deviceSn),
          fin |-> "no"]

\* last_result while a refresh cycle runs
Refreshing == [res |-> "refreshing", at |-> "none"]

\* An exception leaves _async_update_data.
Raise(f, exc) == [cyc |-> f, call |-> NoCall, fin |-> exc]

\* __init__.py:222-223  except DeyeCloudApiError: raise UpdateFailed
Raised(exc) == IF IsApiError(exc) THEN "UpdateFailed" ELSE exc

\* Mutant of Resume: a cycle that raises empties the coordinator's station
\* and device lists.
ResumeClearing(nx) ==
    IF nx.fin = "no"
    THEN /\ cyc' = nx.cyc
         /\ rq' = [rq EXCEPT !["cycle"] =
                     Invoke(nx.call.op, nx.call.arg,
                            access_token', token_expiry', now)]
         /\ last_result' = Refreshing
         /\ UNCHANGED <<coord_data, stations, devices>>
    ELSE IF nx.fin = "return"
    THEN /\ cyc' = Frame0
         /\ rq' = [rq EXCEPT !["cycle"] = IdleRq]
         /\ stations' = DictKeys(nx.cyc.data.stations)
         /\ devices' = DictKeys(nx.cyc.data.devices)
         /\ coord_data' = nx.cyc.data
         /\ last_result' = [res |-> "success", at |-> "return"]
    ELSE /\ cyc' = Frame0
         /\ rq' = [rq EXCEPT !["cycle"] = IdleRq]
         /\ last_result' = [res |-> Raised(nx.fin), at |-> cyc.pc]
         /\ stations' = <<>>
         /\ devices' = <<>>
         /\ UNCHANGED coord_data

\* Mutant of Resume: the snapshot under construction is written through to
\* coordinator.data at every await.
ResumeInPlace(nx) ==
    IF nx.fin = "no"
    THEN /\ cyc' = nx.cyc
         /\ rq' = [rq EXCEPT !["cycle"] =
                     Invoke(nx.call.op, nx.call.arg,
                            access_token', token_expiry', now)]
         /\ last_result' = Refreshing
         /\ coord_data' = nx.cyc.data
         /\ UNCHANGED <<stations, devices>>
    ELSE IF nx.fin = "return"
    THEN /\ cyc' = Frame0
         /\ rq' = [rq EXCEPT !["cycle"] = IdleRq]
         /\ stations' = DictKeys(nx.cyc.data.stations)
         /\ devices' = DictKeys(nx.cyc.data.devices)
         /\ coord_data' = nx.cyc.data
         /\ last_result' = [res |-> "success", at |-> "return"]
    ELSE /\ cyc' = Frame0
         /\ rq' = [rq EXCEPT !["cycle"] = IdleRq]
         /\ last_result' = [res |-> Raised(nx.fin), at |-> cyc.pc]
         /\ UNCHANGED <<coord_data, stations, devices>>

\* The coroutine runs on to its next await, or ends.  DataUpdateCoordinator
\* stores the returned data in coordinator.data and keeps the old data when
\* the update raises.  The client variables of the next state are those the
\* response just handled has left.
Resume(nx) ==
    IF nx.fin = "no"
    THEN /\ cyc' = nx.cyc
         /\ rq' = [rq EXCEPT !["cycle"] =
                     Invoke(nx.call.op, nx.call.arg,
                            access_token', token_expiry', now)]
         /\ last_result' = Refreshing
         /\ UNCHANGED <<coord_data, stations, devices>>
    ELSE IF nx.fin = "return"
    THEN /\ cyc' = Frame0
         /\ rq' = [rq EXCEPT !["cycle"] = IdleRq]
         /\ stations' = DictKeys(nx.cyc.data.stations)
         /\ devices' = DictKeys(nx.cyc.data.devices)
         /\ coord_data' = nx.cyc.data
         /\ last_result' = [res |-> "success", at |-> "return"]
    ELSE /\ cyc' = Frame0
         /\ rq' = [rq EXCEPT !["cycle"] = IdleRq]
         /\ last_result' = [res |-> Raised(nx.fin), at |-> cyc.pc]
         /\ UNCHANGED <<coord_data, stations, devices>>

\* What the client call awaited by the coroutine gives back for resp.
Returned(resp) ==
    IF rq["cycle"].phase = "login"
    THEN LoginRq("cycle", resp) ELSE ApiRq("cycle", resp)

\* The response ends the client call the coroutine awaits at pc.
Arrives(pc, resp) ==
    /\ cyc.pc = pc
    /\ Returned(resp).phase = "done"
    /\ \/ LoginEffect("cycle", resp)
       \/ ApiEffect("cycle", resp)
    /\ UNCHANGED <<now, ent, refresh, setup, entry>>

\* What an awaited client call gave the coroutine: the operation called, the
\* data it returned, or
\* the exception it raised (an auth error as the API error it derives from
\* and is caught as).
Outcome(r) ==
    [op |-> r.op,
     exc |-> IF IsApiError(r.exc) THEN "DeyeCloudApiError" ELSE r.exc,
     data |-> r.data]

\* The outcomes of the client calls of the cycle, in order; kept after the
\* cycle has returned, forgotten when it raised.
Hears(r, nx) ==
    heard' = IF nx.fin \in {"no", "return"}
             THEN Append(heard, Outcome(r)) ELSE <<>>

\* __init__.py:115-120  the frame in which station discovery is awaited
AwaitDiscovery == [Frame0 EXCEPT !.pc = "discovery"]

\* __init__.py:120-148  station discovery returned or raised, in frame f
OnDiscovery(f, r) ==
    IF r.exc # "ok" THEN Raise(f, r.exc)
    ELSE GoStation([f EXCEPT !.stations_data = r.data.stations,
                             !.data = EmptyData], 1)

\* __init__.py:145-170  the station's latest data returned or raised
OnStationLatest(f, r) ==
    LET station == f.stations_data[f.s] IN
    IF r.exc = "ok"
    THEN GoBatch([f EXCEPT !.data.stations =
                     DictPut(@, station.id,
                             [info |-> station, data |-> r.data.val])],
                 0)
    ELSE IF IsApiError(r.exc) THEN GoBatch(f, 0)
    ELSE Raise(f, r.exc)

\* The telemetry of serial sn in the mapping a batch call returned.
Telemetry(sn, data) ==
    [workMode |-> IF sn = 1 THEN data.workMode ELSE "none"]

\* __init__.py:169  device_data = await client.get_device_latest_data(batch)
DeviceData(data) == [sn \in data.keys |-> Telemetry(sn, data)]

\* __init__.py:169-181, 209-212  the batch's telemetry returned or raised
OnBatch(f, r) ==
    IF r.exc = "ok"
    THEN GoDevice([f EXCEPT !.device_data = DeviceData(r.data)], 0)
    ELSE IF IsApiError(r.exc) THEN GoBatch(f, f.i + BATCH_SIZE)
    ELSE Raise(f, r.exc)

\* config_data after one configuration call that returned or was absorbed
ConfigAfter(f, part, exc) ==
    IF exc = "ok" THEN f.config_data \cup {part} ELSE f.config_data

\* __init__.py:180-188  the system configuration returned or raised
OnSystemConfig(f, r) ==
    LET dev == f.stations_data[f.s].deviceListItems[f.d] IN
    IF r.exc = "ok" \/ IsApiError(r.exc)
    THEN [cyc |-> [f EXCEPT !.pc = "battery",
                            !.config_data = ConfigAfter(f, "system", r.exc)],
          call |-> get_battery_config(dev.deviceSn),
          fin |-> "no"]
    ELSE Raise(f, r.exc)

\* __init__.py:187-195  the battery configuration returned or raised
OnBatteryConfig(f, r) ==
    LET dev == f.stations_data[f.s].deviceListItems[f.d] IN
    IF r.exc = "ok" \/ IsApiError(r.exc)
    THEN [cyc |-> [f EXCEPT !.pc = "tou",
                            !.config_data = ConfigAfter(f, "battery", r.exc)],
          call |-> get_tou_config(dev.deviceSn),
          fin |-> "no"]
    ELSE Raise(f, r.exc)

\* __init__.py:194-208  the TOU configuration returned or raised; the device
\* is stored and the loop over the station's devices goes on
OnTouConfig(f, r) ==
    LET dev == f.stations_data[f.s].deviceListItems[f.d]
        stored == [info |-> dev, data |-> f.device_data[dev.deviceSn],
                   config |-> ConfigAfter(f, "tou", r.exc)]
    IN
    IF r.exc = "ok" \/ IsApiError(r.exc)
    THEN GoDevice([f EXCEPT !.data.devices =
                      DictPut(@, dev.deviceSn, stored)],
                  f.d)
    ELSE Raise(f, r.exc)

\* __init__.py:115-120  _async_update_data is entered: station discovery
\* goes out.  A refresh that starts serves the refresh asked for.
StartCycle ==
    /\ cyc.pc = "idle"
    /\ heard' = <<>>
    /\ refresh' = [refresh EXCEPT !.pending = FALSE]
    /\ UNCHANGED <<now, clientVars, faults, srv, ent>>
    /\ Resume([cyc |-> AwaitDiscovery,
               call |-> get_station_list_with_devices,
               fin |-> "no"])

\* A refresh cycle of the set-up integration starts.
CycleStart ==
    /\ StartCycle
    /\ UNCHANGED <<setup, entry>>

\* api.py:127-128 inside the cycle: the login succeeded, the API call goes out
CycleLogin(resp) ==
    /\ LoginRq("cycle", resp).phase = "api"
    /\ LoginResponse("cycle", resp)

\* Mutant of AfterDiscovery: the cycle builds on the published snapshot
\* instead of an empty one.
AfterDiscoveryMerging(resp) ==
    LET r == Returned(resp)
        nx == OnDiscovery(cyc, r)
        on == IF nx.fin \notin {"no", "return"} \/ coord_data.none THEN nx
              ELSE [nx EXCEPT !.cyc.data = coord_data]
    IN
    /\ Arrives("discovery", resp)
    /\ Resume(on)
    /\ Hears(r, on)

\* The response to the discovery call arrives.
AfterDiscovery(resp) ==
    LET r == Returned(resp) IN
    /\ Arrives("discovery", resp)
    /\ Resume(OnDiscovery(cyc, r))
    /\ Hears(r, OnDiscovery(cyc, r))

\* The response to the station's latest-data call arrives.
AfterStationLatest(resp) ==
    LET r == Returned(resp) IN
    /\ Arrives("station_latest", resp)
    /\ Resume(OnStationLatest(cyc, r))
    /\ Hears(r, OnStationLatest(cyc, r))

\* The response to the batch's telemetry call arrives.
AfterBatch(resp) ==
    LET r == Returned(resp) IN
    /\ Arrives("batch", resp)
    /\ Resume(OnBatch(cyc, r))
    /\ Hears(r, OnBatch(cyc, r))

\* The response to the system configuration call arrives.
AfterSystemConfig(resp) ==
    LET r == Returned(resp) IN
    /\ Arrives("system", resp)
    /\ Resume(OnSystemConfig(cyc, r))
    /\ Hears(r, OnSystemConfig(cyc, r))

\* The response to the battery configuration call arrives.
AfterBatteryConfig(resp) ==
    LET r == Returned(resp) IN
    /\ Arrives("battery", resp)
    /\ Resume(OnBatteryConfig(cyc, r))
    /\ Hears(r, OnBatteryConfig(cyc, r))

\* The response to the TOU configuration call arrives.
AfterTouConfig(resp) ==
    LET r == Returned(resp) IN
    /\ Arrives("tou", resp)
    /\ Resume(OnTouConfig(cyc, r))
    /\ Hears(r, OnTouConfig(cyc, r))

\* ------------------------------------------------------------------------
\* The write-control entities of device 1 (select.py, switch.py, number.py)
\* ------------------------------------------------------------------------
\* const.py:55-59
WORK_MODES == {"SELLING_FIRST", "ZERO_EXPORT_TO_LOAD", "ZERO_EXPORT_TO_CT"}

\* const.py:65-68
ENERGY_PATTERNS == {"BATTERY_FIRST", "LOAD_FIRST"}

\* The entity write methods that are modelled, and the client operation each
\* one calls.
\*   select.work_mode       select.py:78-91   async_select_option
\*   select.energy_pattern  select.py:145-158 async_select_option
\*   switch.battery_mode    switch.py:105-133 async_turn_on, async_turn_off
\*   number.charge_current  number.py:87-96   async_set_native_value
EntityOp(e) ==
    CASE e = "select.work_mode" -> "set_work_mode"
      [] e = "select.energy_pattern" -> "set_energy_pattern"
      [] e = "switch.battery_mode" -> "set_battery_mode"
      [] e = "number.charge_current" -> "set_battery_charge_current"

Entities ==
    {"select.work_mode", "select.energy_pattern", "switch.battery_mode",
     "number.charge_current"}

\* select.py:59, 126  _attr_options of a select
Options(e) ==
    CASE e = "select.work_mode" -> WORK_MODES
      [] e = "select.energy_pattern" -> ENERGY_PATTERNS
      [] OTHER -> {}

\* Values the entity methods are called with: an option of the select (one
\* that is not of its enum among them), on/off of the switch, a current.
EntityValues(e) ==
    CASE e = "select.work_mode" -> WORK_MODES \cup {"ECO"}
      [] e = "select.energy_pattern" -> ENERGY_PATTERNS \cup {"ECO"}
      [] e = "switch.battery_mode" -> {"on", "off"}
      [] e = "number.charge_current" -> {"25"}

\* No entity method runs and none has run.
\*   writes   entity methods started so far
\*   asked    the method called coordinator.async_request_refresh()
\*   logged   the method logged an error and returned
\*   raised   the exception that left the method ("none": it returned)
\*   state    the switch's _state: "None" (switch.py:57), "on" (True),
\*            "off" (False)
\*   shown    what the switch's is_on returned last ("unread": not read yet)
IdleEnt ==
    [pc |-> "idle", entity |-> "none", value |-> "none", writes |-> 0,
     asked |-> 0, logged |-> FALSE, raised |-> "none", state |-> "None",
     shown |-> "unread"]

\* coordinator.last_update_success, as Home Assistant's DataUpdateCoordinator
\* sets it when a refresh ends: True after _async_update_data returned,
\* False after it raised.  While a refresh runs the attribute keeps its
\* value; last_result tells it between cycles only.
LastUpdateSuccess == last_result.res = "success"

\* Mutant of DeviceAvailable: the outcome of the last refresh is ignored.
DeviceAvailableByKey(sn) == sn \in Range(DictKeys(coord_data.devices))

\* switch.py:149-155, select.py:108-114, sensor.py:349-355  available of an
\* entity of device sn
DeviceAvailable(sn) ==
    LastUpdateSuccess /\ sn \in Range(DictKeys(coord_data.devices))

\* sensor.py:229-235  available of a sensor of station id
StationAvailable(id) ==
    LastUpdateSuccess /\ id \in Range(DictKeys(coord_data.stations))

\* select.py:67-76  DeyeCloudWorkModeSelect.current_option ("None": None)
CurrentOption(sn) ==
    LET at == {n \in 1..Len(coord_data.devices) :
                   coord_data.devices[n].k = sn}
        mode == IF at = {} THEN "none"
                ELSE coord_data.devices[CHOOSE n \in at : TRUE].v.data.workMode
    IN IF mode \in WORK_MODES THEN mode ELSE "None"

\* Mutant of InvalidOption: the option is passed on unchecked.
InvalidOptionNever(e, v) == FALSE

\* select.py:80-82, 147-149  if option not in WORK_MODES (ENERGY_PATTERNS):
\* log an error, return
InvalidOption(e, v) ==
    e \in {"select.work_mode", "select.energy_pattern"} /\ v \notin Options(e)

\* A method of an entity that setup added is called with value v and runs
\* to its client call.
Write(e, v) ==
    /\ <<EntityOp(e), 1>> \in setup.entities
    /\ ent.pc = "idle"
    /\ ent.writes < MaxWrites
    /\ IF InvalidOption(e, v)
       THEN /\ ent' = [IdleEnt EXCEPT !.entity = e, !.value = v,
                                      !.writes = ent.writes + 1,
                                      !.logged = TRUE,
                                      !.state = ent.state,
                                      !.shown = ent.shown]
            /\ UNCHANGED rq
       ELSE /\ ent' = [IdleEnt EXCEPT !.pc = "calling", !.entity = e,
                                      !.value = v,
                                      !.writes = ent.writes + 1,
                                      !.state = ent.state,
                                      !.shown = ent.shown]
            /\ rq' = [rq EXCEPT !["entity"] =
                        [Invoke(EntityOp(e), <<1>>, access_token,
                                token_expiry, now) EXCEPT !.value = v]]
    /\ UNCHANGED <<now, clientVars, coordVars, faults, srv, refresh, setup, entry>>

\* Python values a snapshot holds under a key: None (also: no such key), a
\* bool, a str (its characters).
PyNone == [t |-> "None", b |-> FALSE, s |-> <<>>]
PyBool(b) == [t |-> "bool", b |-> b, s |-> <<>>]
PyStr(s) == [t |-> "str", b |-> FALSE, s |-> s]

\* Truth value of a Python value: None, False and "" are false.
Truthy(v) == (v.t = "bool" /\ v.b) \/ (v.t = "str" /\ v.s # <<>>)

\* switch.py:78-86  a or b or ... : the first operand that is true, the last
\* operand when none is.
RECURSIVE OrChain(_)
OrChain(vals) ==
    IF Len(vals) = 1 \/ Truthy(Head(vals)) THEN Head(vals)
    ELSE OrChain(Tail(vals))

\* switch.py:93  the strings that mean on
ON_WORDS ==
    {<<"t", "r", "u", "e">>, <<"1">>, <<"o", "n">>,
     <<"e", "n", "a", "b", "l", "e", "d">>, <<"e", "n", "a", "b", "l", "e">>}

\* A bool as the state of a switch.
OnOff(b) == IF b THEN "on" ELSE "off"

\* switch.py:59-103  DeyeCloudBatteryChargeModeSwitch.is_on: what it returns,
\* and assigns to _state, for charge, the values the device's data and config
\* hold under the keys it looks up, in the order of the lookups:
\*   data chargeMode, ChargeMode, BatteryChargeMode, batteryChargeMode,
\*   config chargeMode, batteryChargeMode, ChargeMode
IsOn(charge, state) ==
    LET charge_mode == OrChain(charge) IN
    IF charge_mode.t # "None"
    THEN IF charge_mode.t = "str"
         THEN OnOff([n \in 1..Len(charge_mode.s) |-> Lower(charge_mode.s[n])]
                        \in ON_WORDS)
         ELSE OnOff(charge_mode.b)
    ELSE state

\* switch.py:61-63  the values under the looked-up keys in the published
\* snapshot's entry of device sn (all None when there is no entry)
ChargeKeys(sn) ==
    LET at == {n \in 1..Len(coord_data.devices) :
                   coord_data.devices[n].k = sn}
    IN IF at = {} THEN [k \in 1..7 |-> PyNone]
       ELSE coord_data.devices[CHOOSE n \in at : TRUE].v.charge

\* The switch's is_on is read (by Home Assistant, when it writes the state).
ReadIsOn ==
    LET result == IsOn(ChargeKeys(1), ent.state) IN
    /\ <<"set_battery_mode", 1>> \in setup.entities
    /\ ent' = [ent EXCEPT !.shown = result, !.state = result]
    /\ UNCHANGED <<now, clientVars, rq, coordVars, faults, srv, refresh,
                   setup, entry>>

\* switch.py:105-133  _state after the client call of async_turn_on (v =
\* "on") or async_turn_off (v = "off") ended with exc: the requested value
\* after a return; after DeyeCloudApiError False for turn_on and True for
\* turn_off; any other exception leaves the method before an assignment.
\* The other entities keep no such state.
SwitchState(e, v, exc, old) ==
    IF e # "switch.battery_mode" THEN old
    ELSE IF exc = "ok" THEN v
    ELSE IF IsApiError(exc) THEN (IF v = "on" THEN "off" ELSE "on")
    ELSE old

\* Mutant of EntityReturn: the method returns without asking for a refresh.
EntityReturnQuiet ==
    LET exc == rq["entity"].exc IN
    /\ ent.pc = "calling"
    /\ rq["entity"].phase = "done"
    /\ rq' = [rq EXCEPT !["entity"] = IdleRq]
    /\ ent' = [ent EXCEPT !.pc = "idle",
                          !.logged = IsApiError(exc),
                          !.raised = IF exc = "ok" \/ IsApiError(exc)
                                     THEN "none" ELSE exc,
                          !.state = SwitchState(ent.entity, ent.value, exc,
                                                ent.state)]
    /\ UNCHANGED <<now, clientVars, coordVars, faults, srv, refresh, setup, entry>>

\* select.py:84-91, switch.py:108-118, number.py:89-96  the client call of
\* the entity method returned or raised: after a return the method asks the
\* coordinator for a refresh; DeyeCloudApiError is logged; any other
\* exception leaves the method.
EntityReturn ==
    LET exc == rq["entity"].exc IN
    /\ ent.pc = "calling"
    /\ rq["entity"].phase = "done"
    /\ rq' = [rq EXCEPT !["entity"] = IdleRq]
    /\ ent' = [ent EXCEPT !.pc = "idle",
                          !.asked = IF exc = "ok" THEN 1 ELSE 0,
                          !.logged = IsApiError(exc),
                          !.raised = IF exc = "ok" \/ IsApiError(exc)
                                     THEN "none" ELSE exc,
                          !.state = SwitchState(ent.entity, ent.value, exc,
                                                ent.state)]
    /\ refresh' = IF exc = "ok" THEN [pending |-> TRUE] ELSE refresh
    /\ UNCHANGED <<now, clientVars, coordVars, faults, srv, setup, entry>>

\* ------------------------------------------------------------------------
\* Setup of a config entry: async_setup_entry (__init__.py:28-74)
\* ------------------------------------------------------------------------
\* async_setup_entry has not been called.
\*   pc           none, testing (awaits obtain_token), first_refresh (awaits
\*                async_config_entry_first_refresh), done (returned True),
\*                ended (an exception left it)
\*   raised       the exception that left it
\*   closed       client.close() was awaited
\*   coordinator  DeyeCloudDataUpdateCoordinator was created
\*   registered   hass.data[DOMAIN][entry_id] holds the coordinator
\*   forwarded    the platforms were set up, the update listener added
\*   base_url     the region whose base URL the client was created with
\*   scan_interval    the local scan_interval, in seconds (0: not yet set)
\*   update_interval  the coordinator's polling interval (0: no coordinator)
\*   entities     the write-control entities added: <<client operation, serial>>
\*   unload       what the last async_unload_entry returned: none (not
\*                called), ok (True), failed (False)
NoSetup ==
    [pc |-> "none", raised |-> "none", closed |-> FALSE,
     coordinator |-> FALSE, registered |-> FALSE, forwarded |-> FALSE,
     base_url |-> "none", scan_interval |-> 0, update_interval |-> 0,
     entities |-> {}, unload |-> "none"]

\* A config entry.  0 stands for a key that is absent.
\*   origin    none (no entry), user (created by async_step_user), stored
\*             (held by Home Assistant's entry store, with a region)
\*   region    entry.data["region"]
\*   scan      entry.data["scan_interval"]
\*   opt       entry.options["scan_interval"]
\*   entered   the interval the user entered last, in any step
\*   error     errors["base"] of the form shown last
NoEntry ==
    [origin |-> "none", region |-> "none", scan |-> 0, opt |-> 0,
     entered |-> 0, error |-> "none"]

\* const.py:17-29  the regions with a base URL
REGIONS == {"eu", "us"}

StoredEntry(region) ==
    [NoEntry EXCEPT !.origin = "stored", !.region = region]

\* __init__.py:36  entry.options.get(CONF_SCAN_INTERVAL, DEFAULT_SCAN_INTERVAL)
ScanInterval(e) == IF e.opt # 0 THEN e.opt ELSE DEFAULT_SCAN_INTERVAL

\* __init__.py:28-49  async_setup_entry up to its first await: the entry's
\* data is read (KeyError for a key it lacks), the client is created and the
\* connection test goes out
SetupEntry ==
    /\ setup.pc = "none"
    /\ entry.origin # "none"
    /\ IF entry.region \notin REGIONS
       THEN /\ setup' = [setup EXCEPT !.pc = "ended", !.raised = "KeyError"]
            /\ UNCHANGED rq
       ELSE /\ setup' = [setup EXCEPT !.pc = "testing",
                                      !.base_url = entry.region,
                                      !.scan_interval = ScanInterval(entry)]
            /\ rq' = [rq EXCEPT !["caller"] =
                        Invoke("obtain_token", <<>>, access_token,
                               token_expiry, now)]
    /\ UNCHANGED <<now, clientVars, coordVars, faults, entVars, entry>>

\* __init__.py:47-61  obtain_token returned or raised: on DeyeCloudApiError
\* the client is closed and ConfigEntryNotReady raised, any other exception
\* leaves setup as it is; after a return the coordinator is created and its
\* first refresh starts.
SetupTested ==
    LET exc == rq["caller"].exc IN
    /\ setup.pc = "testing"
    /\ rq["caller"].phase = "done"
    /\ UNCHANGED entry
    /\ IF exc = "ok"
       THEN /\ setup' = [setup EXCEPT !.pc = "first_refresh",
                                      !.coordinator = TRUE,
                                      !.update_interval = setup.scan_interval]
            /\ StartCycle
       ELSE /\ setup' = [setup EXCEPT !.pc = "ended",
                            !.closed = IsApiError(exc),
                            !.raised = IF IsApiError(exc)
                                       THEN "ConfigEntryNotReady" ELSE exc]
            /\ UNCHANGED <<now, clientVars, rq, coordVars, faults, entVars>>

\* const.py:32  PLATFORMS = [Platform.SENSOR, Platform.SWITCH, Platform.SELECT]
PLATFORMS == {"sensor", "switch", "select"}

\* The client operations the entities of a platform call, per device: the
\* entity classes its async_setup_entry adds for every serial of
\* coordinator.devices (switch.py:19-41, select.py:24-46, number.py:20-47).
PlatformWrites(platform) ==
    CASE platform = "switch" -> {"set_battery_mode", "set_solar_sell"}
      [] platform = "select" -> {"set_work_mode", "set_energy_pattern"}
      [] platform = "number" -> {"set_battery_charge_current",
                                 "set_battery_discharge_current",
                                 "set_max_sell_power"}
      [] OTHER -> {}

\* __init__.py:69  async_forward_entry_setups(entry, PLATFORMS): the entities
\* added when the coordinator holds the serials devs
ForwardedEntities(devs) ==
    {<<op, sn>> : op \in UNION {PlatformWrites(p) : p \in PLATFORMS},
                  sn \in Range(devs)}

\* __init__.py:61-72  the first refresh ended: async_config_entry_first_refresh
\* raises ConfigEntryNotReady when the update failed; otherwise the
\* coordinator is stored in hass.data and the platforms are set up.
SetupRefreshed ==
    /\ setup.pc = "first_refresh"
    /\ cyc.pc = "idle"
    /\ setup' = IF last_result.res = "success"
                THEN [setup EXCEPT !.pc = "done", !.registered = TRUE,
                                   !.forwarded = TRUE,
                                   !.entities = ForwardedEntities(devices)]
                ELSE [setup EXCEPT !.pc = "ended",
                                   !.raised = "ConfigEntryNotReady"]
    /\ UNCHANGED <<now, clientVars, rq, coordVars, faults, entVars, entry>>

\* __init__.py:77-86  async_unload_entry; unload_ok is what Home Assistant's
\* async_unload_platforms returned.
UnloadEntry(unload_ok) ==
    /\ setup.pc = "done"
    /\ setup' = IF unload_ok
                THEN [setup EXCEPT !.pc = "unloaded", !.closed = TRUE,
                                   !.registered = FALSE, !.unload = "ok"]
                ELSE [setup EXCEPT !.unload = "failed"]
    /\ UNCHANGED <<now, clientVars, rq, coordVars, faults, entVars, entry>>

\* api.py:49-58  the client holds an open aiohttp session: it was created
\* (with the base URL of the region), has made its first call, and close()
\* was not awaited since.
SessionOpen == setup.base_url # "none" /\ ~setup.closed

\* ------------------------------------------------------------------------
\* The configuration flows (config_flow.py)
\* ------------------------------------------------------------------------
\* Intervals the user types into the scan_interval field (0: left empty).
ScanInputs == {0, SCAN_INTERVAL_MIN - 1, 45, SCAN_INTERVAL_MAX + 1}

\* config_flow.py:72-74, 138-141, 177-183
\* vol.All(vol.Coerce(int), vol.Range(min=30, max=3600)), the field Optional
ValidInterval(v) ==
    v = 0 \/ v \in SCAN_INTERVAL_MIN..SCAN_INTERVAL_MAX

\* vol.Optional(key, default=d): the default stands in for an empty field
Filled(v, d) == IF v = 0 THEN d ELSE v

\* config_flow.py:56-62  errors["base"] for what obtain_token raised
FlowError(exc) ==
    CASE exc = "DeyeCloudAuthError" -> "invalid_auth"
      [] exc = "DeyeCloudApiError" -> "cannot_connect"
      [] OTHER -> "unknown"

\* The remote service answers the login call of a flow's own client.
FlowLogin(resp) ==
    issued' = IF HasBody(resp) /\ resp.data.accessToken # NoToken
              THEN issued + 1 ELSE issued

\* Home Assistant sets the entry up anew (async_reload, a retry after
\* ConfigEntryNotReady, a restart): the old client, coordinator and setup
\* are gone, async_setup_entry will be called again.
SetUpAnew ==
    /\ access_token' = NoToken
    /\ token_expiry' = 0
    /\ tok' = [T |-> 0, S |-> 0]
    /\ rq' = [t \in Tasks |-> IdleRq]
    /\ cyc' = Frame0
    /\ coord_data' = NoSnapshot
    /\ stations' = <<>>
    /\ devices' = <<>>
    /\ last_result' = [res |-> "none", at |-> "none"]
    /\ heard' = <<>>
    /\ setup' = NoSetup

\* The process-side variables are left as they are.
SetUpKept ==
    UNCHANGED <<access_token, token_expiry, tok, rq, coordVars, setup>>

\* config_flow.py:30-78  async_step_user with the four credentials and
\* interval v; resp answers the login call that validates them.  The entry's
\* data is the user input.
StepUser(v, resp) ==
    /\ entry.origin = "none"
    /\ entry' = IF ~ValidInterval(v)
                THEN [entry EXCEPT !.error = "out_of_range"]
                ELSE IF ObtainTokenExc(resp) # "ok"
                THEN [entry EXCEPT !.error = FlowError(ObtainTokenExc(resp))]
                ELSE [NoEntry EXCEPT !.origin = "user",
                                     !.scan = Filled(v, DEFAULT_SCAN_INTERVAL),
                                     !.entered = v]
    /\ IF ValidInterval(v) THEN FlowLogin(resp) ELSE UNCHANGED issued
    /\ SetUpKept
    /\ UNCHANGED <<now, faults, entVars>>

\* config_flow.py:80-148  async_step_reconfigure: the user input is merged
\* into the entry's data and the entry reloaded.
StepReconfigure(v, resp) ==
    /\ entry.origin # "none"
    /\ setup.pc \in {"done", "ended"}
    /\ IF ValidInterval(v) /\ ObtainTokenExc(resp) = "ok"
       THEN /\ entry' = [entry EXCEPT
                            !.scan = Filled(v, Filled(entry.scan,
                                                      DEFAULT_SCAN_INTERVAL)),
                            !.entered = Filled(v, entry.entered),
                            !.error = "none"]
            /\ SetUpAnew
       ELSE /\ entry' = [entry EXCEPT !.error =
                            IF ~ValidInterval(v) THEN "out_of_range"
                            ELSE FlowError(ObtainTokenExc(resp))]
            /\ SetUpKept
    /\ IF ValidInterval(v) THEN FlowLogin(resp) ELSE UNCHANGED issued
    /\ UNCHANGED <<now, faults, entVars>>

\* config_flow.py:166-186  DeyeCloudOptionsFlow.async_step_init of a loaded
\* entry: the options become the user input; __init__.py:72, 88-90 the
\* update listener reloads the entry.
StepOptions(v) ==
    /\ entry.origin # "none"
    /\ setup.pc = "done"
    /\ IF ValidInterval(v)
       THEN /\ entry' = [entry EXCEPT
                            !.opt = Filled(v, Filled(entry.opt,
                                              Filled(entry.scan,
                                                     DEFAULT_SCAN_INTERVAL))),
                            !.entered = Filled(v, entry.entered),
                            !.error = "none"]
            /\ SetUpAnew
       ELSE /\ entry' = [entry EXCEPT !.error = "out_of_range"]
            /\ SetUpKept
    /\ UNCHANGED <<now, issued, faults, entVars>>

\* Home Assistant retries the setup that ended with an exception.
SetupRetry ==
    /\ setup.pc = "ended"
    /\ SetUpAnew
    /\ UNCHANGED <<now, issued, faults, entVars, entry>>

\* ------------------------------------------------------------------------
\* Specifications
\* ------------------------------------------------------------------------
Init ==
    /\ now = 0
    /\ access_token = NoToken
    /\ token_expiry = 0
    /\ issued = 0
    /\ tok = [T |-> 0, S |-> 0]
    /\ rq = [t \in Tasks |-> IdleRq]
    /\ cyc = Frame0
    /\ coord_data = NoSnapshot
    /\ stations = <<>>
    /\ devices = <<>>
    /\ last_result = [res |-> "none", at |-> "none"]
    /\ heard = <<>>
    /\ faults = 0
    /\ srv = "none"
    /\ ent = IdleEnt
    /\ refresh = [pending |-> FALSE]
    /\ setup = NoSetup
    /\ entry = StoredEntry("eu")

\* The client driven by a direct caller, with the clock.
NextClient ==
    \/ Tick
    \/ \E op \in CallerOps :
           \E n \in (IF op = "get_device_latest_data"
                     THEN SerialCounts ELSE {0}) : Call(op, n)
    \/ \E resp \in RespsFor("caller") : LoginResponse("caller", resp)
    \/ \E resp \in RespsFor("caller") : ApiResponse("caller", resp)

\* The refresh coordinator driving the client.
Next ==
    \/ CycleStart
    \/ \E resp \in RespsFor("cycle") : CycleLogin(resp)
    \/ \E resp \in RespsFor("cycle") : AfterDiscovery(resp)
    \/ \E resp \in RespsFor("cycle") : AfterStationLatest(resp)
    \/ \E resp \in RespsFor("cycle") : AfterBatch(resp)
    \/ \E resp \in RespsFor("cycle") : AfterSystemConfig(resp)
    \/ \E resp \in RespsFor("cycle") : AfterBatteryConfig(resp)
    \/ \E resp \in RespsFor("cycle") : AfterTouConfig(resp)

\* The integration at work: refresh cycles, one after the other.
Spec == Init /\ [][Next]_vars

\* The API client on its own, called directly while time passes.
SpecClient == Init /\ [][NextClient]_vars

\* The snapshot of the installation whose station list is TopoHome, every
\* call of the cycle answered with success: station 1 with device 1 (the
\* remote service holds no telemetry of device 2).
HomeSnapshot ==
    [none |-> FALSE,
     stations |-> << [k |-> 1,
                      v |-> [info |-> TopoHome[1],
                             data |-> "get_station_latest_data"]] >>,
     devices |-> << [k |-> 1,
                     v |-> [info |-> Dev(1),
                            data |-> [workMode |-> "none"],
                            config |-> {"system", "battery", "tou"}]] >>]

\* What the client calls of that cycle returned.
HomeHeard ==
    LET ok(o, d) == [op |-> o, exc |-> "ok", data |-> d] IN
    << ok("get_station_list_with_devices",
          [NoData EXCEPT !.val = "stations", !.stations = TopoHome]),
       ok("get_station_latest_data",
          [NoData EXCEPT !.val = "get_station_latest_data"]),
       ok("get_device_latest_data",
          [NoData EXCEPT !.val = "telemetry", !.keys = {1}]),
       ok("get_system_config", [NoData EXCEPT !.val = "get_system_config"]),
       ok("get_battery_config", [NoData EXCEPT !.val = "get_battery_config"]),
       ok("get_tou_config", [NoData EXCEPT !.val = "get_tou_config"]) >>

\* __init__.py:25-72  the state async_setup_entry leaves behind when every
\* call it makes succeeds: token 1 cached with the default TTL, the first
\* refresh published, the platforms' entities created.
SetUpWith(snapshot) ==
    /\ now = 0
    /\ access_token = 1
    /\ token_expiry = DEFAULT_EXPIRES_IN - TOKEN_EXPIRY_BUFFER
    /\ issued = 1
    /\ tok = [T |-> 0, S |-> 0]
    /\ rq = [t \in Tasks |-> IdleRq]
    /\ cyc = Frame0
    /\ coord_data = snapshot
    /\ stations = <<1>>
    /\ devices = <<1>>
    /\ last_result = [res |-> "success", at |-> "return"]
    /\ heard = HomeHeard
    /\ faults = MaxFaults - 1
    /\ srv = "none"
    /\ ent = IdleEnt
    /\ refresh = [pending |-> FALSE]
    /\ setup = [NoSetup EXCEPT !.pc = "done", !.coordinator = TRUE,
                               !.registered = TRUE, !.forwarded = TRUE,
                               !.base_url = "eu",
                               !.scan_interval = DEFAULT_SCAN_INTERVAL,
                               !.update_interval = DEFAULT_SCAN_INTERVAL,
                               !.entities = ForwardedEntities(<<1>>)]
    /\ entry = StoredEntry("eu")

SetUp == SetUpWith(HomeSnapshot)

\* Responses to the cycle's awaited call from an installation whose station
\* list is TopoHome or empty.
HomeResps ==
    {resp \in RespsFor("cycle") : resp.data.stations \in {<<>>, TopoHome}}

\* The entities of device 1 and the refresh coordinator, after setup.
NextEntity ==
    \/ \E e \in Entities : \E v \in EntityValues(e) : Write(e, v)
    \/ \E resp \in RespsFor("entity") : ApiResponse("entity", resp)
    \/ EntityReturn
    \/ CycleStart
    \/ \E resp \in HomeResps : AfterDiscovery(resp)
    \/ \E resp \in HomeResps : AfterStationLatest(resp)
    \/ \E resp \in HomeResps : AfterBatch(resp)
    \/ \E resp \in HomeResps : AfterSystemConfig(resp)
    \/ \E resp \in HomeResps : AfterBatteryConfig(resp)
    \/ \E resp \in HomeResps : AfterTouConfig(resp)

\* Entity writes and refresh cycles of a set-up integration.
SpecEntity == SetUp /\ [][NextEntity]_vars

\* Values the remote service reports a charge mode with.
SwitchValues ==
    {PyBool(TRUE), PyBool(FALSE), PyStr(<<"O", "n">>), PyStr(<<"1">>),
     PyStr(<<"o", "f", "f">>), PyStr(<<>>)}

\* The values under the seven keys is_on looks up, at most MaxKeys of them
\* present.
ChargeReadings ==
    UNION {{[k \in 1..7 |-> IF k \in S THEN f[k] ELSE PyNone] :
                f \in [S -> SwitchValues]} :
           S \in {T \in SUBSET (1..7) : Cardinality(T) <= MaxKeys}}

\* HomeSnapshot with the values device 1 holds under the keys of is_on.
SwitchSnapshot(charge) ==
    [HomeSnapshot EXCEPT !.devices =
        << [k |-> 1,
            v |-> [info |-> Dev(1),
                   data |-> [workMode |-> "none"],
                   config |-> {"system", "battery", "tou"},
                   charge |-> charge]] >>]

\* After setup, with any charge mode reading in the published snapshot.
InitSwitch == \E charge \in ChargeReadings : SetUpWith(SwitchSnapshot(charge))

\* The battery charge mode switch of device 1: read, turned on, turned off.
NextSwitch ==
    \/ ReadIsOn
    \/ \E v \in EntityValues("switch.battery_mode") :
           Write("switch.battery_mode", v)
    \/ \E resp \in RespsFor("entity") : ApiResponse("entity", resp)
    \/ EntityReturn

\* The switch over a published snapshot.
SpecSwitch == InitSwitch /\ [][NextSwitch]_vars

\* One call of async_setup_entry, with the first refresh it awaits.
NextSetup ==
    \/ SetupEntry
    \/ \E resp \in RespsFor("caller") : LoginResponse("caller", resp)
    \/ SetupTested
    \/ \E resp \in RespsFor("cycle") : CycleLogin(resp)
    \/ \E resp \in RespsFor("cycle") : AfterDiscovery(resp)
    \/ \E resp \in RespsFor("cycle") : AfterStationLatest(resp)
    \/ \E resp \in RespsFor("cycle") : AfterBatch(resp)
    \/ \E resp \in RespsFor("cycle") : AfterSystemConfig(resp)
    \/ \E resp \in RespsFor("cycle") : AfterBatteryConfig(resp)
    \/ \E resp \in RespsFor("cycle") : AfterTouConfig(resp)
    \/ SetupRefreshed
    \/ \E unload_ok \in BOOLEAN : UnloadEntry(unload_ok)

\* Setup of a config entry.
SpecSetup == Init /\ [][NextSetup]_vars

\* Tasks that call the client while another call may be awaiting the network.
ConcurrentTasks == {"caller", "entity"}

\* Task t invokes an authenticated client operation for device 1.
CallAs(t, op) ==
    /\ rq[t].phase \in {"none", "done"}
    /\ rq' = [rq EXCEPT ![t] =
                Invoke(op, <<1>>, access_token, token_expiry, now)]
    /\ UNCHANGED <<now, clientVars, coordVars, faults, entVars, setup, entry>>

\* Two tasks calling one client: every await in obtain_token and _request
\* lets the other task run (api.py:76, 134, 140).
NextConcurrent ==
    \/ \E t \in ConcurrentTasks : CallAs(t, "set_work_mode")
    \/ \E t \in ConcurrentTasks :
           \E resp \in RespsFor(t) : LoginResponse(t, resp)
    \/ \E t \in ConcurrentTasks :
           \E resp \in RespsFor(t) : ApiResponse(t, resp)

\* Concurrent calls on one client.
SpecConcurrent == Init /\ [][NextConcurrent]_vars

\* Home Assistant starts with no entry or with a stored one.
InitConfig ==
    /\ now = 0
    /\ access_token = NoToken
    /\ token_expiry = 0
    /\ issued = 0
    /\ tok = [T |-> 0, S |-> 0]
    /\ rq = [t \in Tasks |-> IdleRq]
    /\ cyc = Frame0
    /\ coord_data = NoSnapshot
    /\ stations = <<>>
    /\ devices = <<>>
    /\ last_result = [res |-> "none", at |-> "none"]
    /\ heard = <<>>
    /\ faults = 0
    /\ srv = "none"
    /\ ent = IdleEnt
    /\ refresh = [pending |-> FALSE]
    /\ setup = NoSetup
    /\ entry \in {NoEntry} \cup {StoredEntry(r) : r \in REGIONS}

\* Responses to the cycle's awaited call from an account without stations.
EmptyResps ==
    {resp \in RespsFor("cycle") : resp.data.stations = <<>>}

\* The flows and the setups of an entry, for an account without stations.
NextConfig ==
    \/ \E v \in ScanInputs : \E resp \in LoginResps : StepUser(v, resp)
    \/ \E v \in ScanInputs : \E resp \in LoginResps : StepReconfigure(v, resp)
    \/ \E v \in ScanInputs : StepOptions(v)
    \/ SetupRetry
    \/ SetupEntry
    \/ \E resp \in RespsFor("caller") : LoginResponse("caller", resp)
    \/ SetupTested
    \/ \E resp \in EmptyResps : CycleLogin(resp)
    \/ \E resp \in EmptyResps : AfterDiscovery(resp)
    \/ SetupRefreshed

\* Configuration and setup of a config entry.
SpecConfig == InitConfig /\ [][NextConfig]_vars


\* ------------------------------------------------------------------------
\* Properties of the refresh cycle (Spec)
\* ------------------------------------------------------------------------
Published == <<coord_data, stations, devices>>

\* C1: when the station-discovery call of a cycle fails, in whatever way, the
\* cycle ends with UpdateFailed and with nothing else, and coordinator.data,
\* stations and devices are what they were before the cycle.
C1_DiscoveryFailureIsUpdateFailed ==
    [][(cyc.pc = "discovery" /\ cyc'.pc = "idle"
            /\ last_result'.res # "success")
       => (last_result'.res = "UpdateFailed" /\ Published' = Published)]_vars

\* The call the cycle awaits at a device batch fails.
C2_BatchFails == cyc.pc = "batch" /\ faults' = faults + 1

\* C2: when the telemetry request of one device batch fails, the cycle goes
\* on (it is not ended by an error), none of the batch's devices is stored,
\* and the batch is not requested again.
C2_PartialFailureIsolation ==
    [][C2_BatchFails
       => /\ last_result'.res \in {"refreshing", "success"}
          /\ cyc'.pc # "idle" => cyc'.data = cyc.data
          /\ (cyc'.pc = "batch" /\ cyc'.s = cyc.s)
                => cyc'.i = cyc.i + BATCH_SIZE]_vars

\* C3: a cycle ends with an error only when its discovery call failed; a
\* failure of a station, batch or configuration call never ends the cycle.
C3_OnlyDiscoveryFailsCycle ==
    last_result.res \notin {"none", "refreshing", "success"}
        => last_result.at = "discovery"

\* The step that ends a cycle successfully.
C4_Publishes ==
    cyc.pc # "idle" /\ cyc'.pc = "idle" /\ last_result'.res = "success"

\* C4: what consumers read (coordinator.data, with stations and devices)
\* changes only in the single step that ends a cycle successfully, and is
\* then the snapshot that cycle built; during a cycle it stays the snapshot
\* of the last successful cycle.
C4_AtomicPublication ==
    [][/\ Published' # Published => C4_Publishes
       /\ C4_Publishes
             => /\ coord_data'.none = FALSE
                /\ stations' = DictKeys(coord_data'.stations)
                /\ devices' = DictKeys(coord_data'.devices)]_vars

\* A cycle is in flight with a partly built snapshot that differs from the
\* snapshot consumers read.
C4_StaleWhileRefreshing ==
    /\ cyc.pc \in {"batch", "system", "battery", "tou"}
    /\ cyc.data.stations # <<>>
    /\ coord_data.none = FALSE
    /\ coord_data.stations # cyc.data.stations

\* ------------------------------------------------------------------------
\* Properties of the client (SpecClient)
\* ------------------------------------------------------------------------
\* The instant T + S - 300 of the cached token (S is 3600 when the login
\* response carried no expiresIn).
TokenDeadline == tok.T + (IF tok.S = 0 THEN 3600 ELSE tok.S) - 300

\* Task t issues an authenticated request in this step.
IssuesRequest(t) ==
    /\ rq[t].phase \in {"none", "done"}
    /\ rq'[t].phase \in {"login", "api"}
    /\ rq'[t].op # "obtain_token"

\* The API call of task t goes out, carrying a token, in this step.
SendsApiCall(t) == rq[t].phase # "api" /\ rq'[t].phase = "api"

\* With a cached token, a request issued strictly before T + S - 300 reuses
\* it without a login; one issued at or after that instant logs in first.
C5_Boundary ==
    \A t \in Tasks :
        (IssuesRequest(t) /\ access_token # NoToken)
        => /\ now < TokenDeadline
                => /\ rq'[t].phase = "api"
                   /\ rq'[t].logins = 0
                   /\ rq'[t].hdr = access_token
           /\ now >= TokenDeadline
                => rq'[t].phase = "login" /\ rq'[t].apis = 0

\* C5 as stated: the boundary law, and no API call ever goes out carrying a
\* token at or past T + S - 300.
C5_TokenBoundaryAnyTTL ==
    [][/\ C5_Boundary
       /\ \A t \in Tasks :
              SendsApiCall(t)
              => rq'[t].hdr = access_token' /\ now' < TokenDeadline']_vars

\* C5 (amended): the boundary law; and no API call goes out carrying a token
\* at or past T + S - 300, provided the TTL of that token exceeds the margin.
C5_TokenBoundary ==
    [][/\ C5_Boundary
       /\ \A t \in Tasks :
              SendsApiCall(t)
              => /\ rq'[t].hdr = access_token'
                 /\ (tok'.S = 0 \/ tok'.S > 300) => now' < TokenDeadline']_vars

\* A request issued exactly at T + S - 300 waits for its login.
C5_LoginAtBoundary ==
    /\ rq["caller"].phase = "login"
    /\ rq["caller"].op # "obtain_token"
    /\ access_token # NoToken
    /\ now = TokenDeadline

\* C6: when an API call is rejected with an auth code, the cached token is
\* destroyed or replaced, so the rejected token is not attached again.
C6_RejectedTokenDropped ==
    [][\A t \in Tasks :
          (rq[t].phase = "api" /\ rq'[t].phase = "done"
               /\ rq'[t].exc = "DeyeCloudAuthError")
          => access_token' # rq[t].hdr]_vars

\* C7: one call of _request makes at most one login call and at most one API
\* call, makes no API call when its login failed, and after the API call was
\* sent it only ends: it never goes back to logging in or sending.
C7_ExecutorDoesNotLoop ==
    /\ [](\A t \in Tasks : rq[t].logins <= 1 /\ rq[t].apis <= 1)
    /\ [][\A t \in Tasks :
             /\ (rq[t].phase = "login" /\ rq'[t].phase = "done"
                     /\ rq'[t].exc # "ok")
                   => rq'[t].apis = 0
             /\ rq[t].phase = "api" => rq'[t].phase \in {"api", "done"}]_vars

\* A call that logged in, sent its API call, was rejected, and ended.
C7_RejectedOnce ==
    /\ rq["caller"].phase = "done"
    /\ rq["caller"].exc = "DeyeCloudAuthError"
    /\ rq["caller"].logins = 1
    /\ rq["caller"].apis = 1

\* Task t invokes get_device_latest_data in this step.
C8_Invokes(t) ==
    /\ rq[t].phase \in {"none", "done"}
    /\ rq'[t] # rq[t]
    /\ rq'[t].op = "get_device_latest_data"

\* C8: get_device_latest_data with more than 10 serials raises ValueError at
\* once, with no login call, no telemetry call and the cached credential
\* untouched; with at most 10 serials it never raises ValueError.
C8_BatchSizeValidation ==
    /\ [][\A t \in Tasks :
             C8_Invokes(t)
             => IF Len(rq'[t].arg) > 10
                THEN /\ rq'[t].phase = "done"
                     /\ rq'[t].exc = "ValueError"
                     /\ rq'[t].logins = 0 /\ rq'[t].apis = 0
                     /\ UNCHANGED <<access_token, token_expiry>>
                ELSE /\ rq'[t].phase \in {"login", "api"}
                     /\ rq'[t].exc = "none"]_vars
    /\ [](\A t \in Tasks :
             (rq[t].op = "get_device_latest_data" /\ Len(rq[t].arg) <= 10)
             => rq[t].exc # "ValueError")

\* 11 serials were refused while a credential was cached.
C8_ElevenRefused ==
    /\ rq["caller"].op = "get_device_latest_data"
    /\ Len(rq["caller"].arg) = 11
    /\ rq["caller"].exc = "ValueError"
    /\ access_token # NoToken

StringTwin(resp) == [resp EXCEPT !.code = StrCode(resp.code.v)]

\* C10: a login response with success code 0 (or 1000000) and the response
\* that carries the same code as a string leave the client in the same
\* state (same token, same expiry) and raise no error when a token is given.
C10_LoginCodeEquivalence ==
    /\ \A resp \in LoginResps :
           (resp.kind = "body"
                /\ resp.code \in {IntCode("0"), IntCode("1000000")})
           => LET twin == StringTwin(resp) IN
              /\ ObtainTokenExc(twin) = ObtainTokenExc(resp)
              /\ ObtainTokenToken(twin, access_token)
                     = ObtainTokenToken(resp, access_token)
              /\ ObtainTokenExpiry(twin, now, token_expiry)
                     = ObtainTokenExpiry(resp, now, token_expiry)
              /\ resp.data.accessToken # NoToken
                    => ObtainTokenExc(twin) = "ok"
    /\ \A t \in Tasks :
           (rq[t].phase = "done" /\ rq[t].op = "obtain_token"
                /\ rq[t].resp.kind = "body"
                /\ rq[t].resp.code \in ServerOkCodes
                /\ rq[t].resp.data.accessToken # NoToken)
           => /\ rq[t].exc = "ok"
              /\ access_token = rq[t].resp.data.accessToken
              /\ token_expiry = TokenDeadline

\* obtain_token succeeded on a login response carrying the code "0".
C10_StringCodeLogin ==
    /\ rq["caller"].phase = "done"
    /\ rq["caller"].op = "obtain_token"
    /\ rq["caller"].exc = "ok"
    /\ rq["caller"].resp.code = StrCode("0")
    /\ access_token = rq["caller"].resp.data.accessToken

\* C11: a call whose response has a status outside 2xx fails with the
\* generic API error whatever code its body carries: it never returns and
\* is never classified as an auth error.
C11_Non2xxIsTransportError ==
    \A t \in Tasks :
        (rq[t].phase = "done" /\ rq[t].resp.kind \in {"http_err", "http_3xx"})
        => rq[t].exc = "DeyeCloudApiError"

\* ------------------------------------------------------------------------
\* Properties of the fleet fetch (Spec)
\* ------------------------------------------------------------------------
\* C12: a cycle starts with the station-discovery request, made through an
\* operation the client defines; discovery is requested once per cycle; and
\* the cycle goes on to a station, device or configuration request only in
\* the step in which discovery returned successfully.
C12_DiscoveryFirst ==
    [][/\ (cyc.pc = "idle" /\ cyc'.pc # "idle")
            => /\ cyc'.pc = "discovery"
               /\ rq'["cycle"].op = "get_station_list_with_devices"
               /\ rq'["cycle"].op \in ClientOperations
       /\ cyc'.pc = "discovery" => cyc.pc \in {"idle", "discovery"}
       /\ rq'["cycle"].op = "get_station_list_with_devices"
            => rq'["cycle"].apis <= 1
       /\ (cyc.pc = "discovery" /\ cyc'.pc \notin {"idle", "discovery"})
            => /\ rq["cycle"].phase = "api"
               /\ faults' = faults
               /\ cyc'.pc = "station_latest"]_vars

\* The serial-bearing devices of the stations the cycle does not skip.
FleetSerials(sd) ==
    UNION {Range(DeviceSns(sd[n])) : n \in {m \in 1..Len(sd) : ~SkipStation(sd[m])}}

\* A device-telemetry request goes out in this step.
C13_BatchGoesOut ==
    /\ cyc'.pc = "batch"
    /\ cyc.pc # "batch" \/ cyc'.i # cyc.i \/ cyc'.s # cyc.s

\* The cycle is done with station cyc.s in this step without being ended by
\* an error: it goes on to another station or returns its data.
C13_LeavesStation ==
    /\ cyc.pc \in {"station_latest", "batch", "system", "battery", "tou"}
    /\ \/ cyc'.pc # "idle" /\ cyc'.s # cyc.s
       \/ C4_Publishes

\* The batching law of C13: every device-telemetry request holds the slice
\* [i, i + 10) of the station's serial list, 1 to 10 serials, and never
\* trips the validation error; the first slice of a station starts at 0,
\* the next one 10 further; and a station is left only after the slice
\* that reaches the end of its list, that is after ceil(n / 10) requests.
C13_Slices ==
    /\ C13_BatchGoesOut
         => LET sns == DeviceSns(cyc'.stations_data[cyc'.s])
                arg == rq'["cycle"].arg
            IN /\ rq'["cycle"].op = "get_device_latest_data"
               /\ rq'["cycle"].exc # "ValueError"
               /\ cyc'.i % BATCH_SIZE = 0 /\ cyc'.i < Len(sns)
               /\ arg = SubSeq(sns, cyc'.i + 1, Min(cyc'.i + 10, Len(sns)))
               /\ Len(arg) \in 1..10
               /\ cyc'.i = IF cyc.pc = "station_latest" THEN 0 ELSE cyc.i + 10
               /\ cyc.pc # "station_latest" => cyc'.s = cyc.s
    /\ C13_LeavesStation
         => LET n == Len(DeviceSns(cyc.stations_data[cyc.s])) IN
            IF cyc.pc = "station_latest" THEN n = 0
            ELSE cyc.i < n /\ n <= cyc.i + 10

RECURSIVE AllSerials(_, _)
AllSerials(sd, k) ==
    IF k > Len(sd) THEN <<>>
    ELSE (IF SkipStation(sd[k]) THEN <<>> ELSE DeviceSns(sd[k]))
             \o AllSerials(sd, k + 1)

C15_DataAfter == IF C4_Publishes THEN coord_data' ELSE cyc'.data

\* C15: when the latest-telemetry request of a station fails, the cycle goes
\* on, the station is in the snapshot with its info, and the first batch
\* of the station's devices is requested next.
C15_StationKeptOnFailure ==
    [][(cyc.pc = "station_latest" /\ faults' = faults + 1)
       => LET station == cyc.stations_data[cyc.s]
              kept == C15_DataAfter.stations
          IN /\ cyc'.pc # "idle" \/ C4_Publishes
             /\ \E n \in 1..Len(kept) :
                    kept[n].k = station.id /\ kept[n].v.info = station
             /\ DeviceSns(station) # <<>>
                  => /\ cyc'.pc = "batch" /\ cyc'.s = cyc.s /\ cyc'.i = 0
                     /\ rq'["cycle"].op = "get_device_latest_data"]_vars

\* The configuration part fetched at pc, if the call just ended returned.
C16_Got(part) == IF faults' = faults THEN {part} ELSE {}

\* C16: whatever the outcome of a configuration call, the next one is
\* attempted (system, then battery, then TOU), and after the TOU call the
\* device is stored with its telemetry and with exactly the parts whose
\* call succeeded.
C16_ConfigBestEffort ==
    [][/\ (cyc.pc = "system" /\ cyc' # cyc)
            => /\ cyc'.pc = "battery" /\ cyc'.d = cyc.d
               /\ rq'["cycle"].op = "get_battery_config"
               /\ cyc'.config_data = C16_Got("system")
       /\ (cyc.pc = "battery" /\ cyc' # cyc)
            => /\ cyc'.pc = "tou" /\ cyc'.d = cyc.d
               /\ rq'["cycle"].op = "get_tou_config"
               /\ cyc'.config_data = cyc.config_data \cup C16_Got("battery")
       /\ (cyc.pc = "tou" /\ cyc' # cyc)
            => LET dev == cyc.stations_data[cyc.s].deviceListItems[cyc.d]
                   kept == C15_DataAfter.devices
               IN \E n \in 1..Len(kept) :
                      /\ kept[n].k = dev.deviceSn
                      /\ kept[n].v.info = dev
                      /\ kept[n].v.data = [workMode |-> "none"]
                      /\ kept[n].v.config
                             = cyc.config_data \cup C16_Got("tou")]_vars

\* _async_update_data resumed in frame f with outcome o of the awaited call.
C17_Step(f, o) ==
    CASE f.pc = "discovery" -> OnDiscovery(f, o)
      [] f.pc = "station_latest" -> OnStationLatest(f, o)
      [] f.pc = "batch" -> OnBatch(f, o)
      [] f.pc = "system" -> OnSystemConfig(f, o)
      [] f.pc = "battery" -> OnBatteryConfig(f, o)
      [] f.pc = "tou" -> OnTouConfig(f, o)
      [] OTHER -> Raise(f, "none")

\* _async_update_data as a function of the outcomes of its client calls
\* alone: where it stands after outs[k..], started from nx.
RECURSIVE C17_Replay(_, _, _)
C17_Replay(nx, outs, k) ==
    IF k > Len(outs) \/ nx.fin # "no" THEN nx
    ELSE C17_Replay(C17_Step(nx.cyc, outs[k]), outs, k + 1)

\* What a cycle that was given the outcomes outs does.
C17_Built(outs) ==
    C17_Replay([cyc |-> AwaitDiscovery,
                call |-> get_station_list_with_devices,
                fin |-> "no"], outs, 1)

\* C17: the snapshot and the station and device lists a cycle publishes
\* are a function of the responses to its calls alone (and so is the
\* snapshot under construction at every await): neither the cached token
\* nor the snapshot published before has a part in it, so two cycles given
\* identical responses publish identical snapshots and lists.
C17_SnapshotFromResponsesAlone ==
    /\ cyc.pc # "idle" => cyc = C17_Built(heard).cyc
    /\ last_result.res = "success"
         => LET built == C17_Built(heard) IN
            /\ built.fin = "return"
            /\ coord_data = built.cyc.data
            /\ stations = DictKeys(built.cyc.data.stations)
            /\ devices = DictKeys(built.cyc.data.devices)

\* A cycle that logged in anew, after an earlier token, and was refused one
\* configuration call has published a snapshot with a station and a device.
C17_PublishedAfterRelogin ==
    /\ last_result.res = "success"
    /\ issued = 2 /\ access_token = 2
    /\ \E k \in 1..Len(heard) : heard[k].exc # "ok"
    /\ coord_data.stations # <<>>
    /\ coord_data.devices # <<>>

\* ------------------------------------------------------------------------
\* Properties of the write-control entities (SpecEntity)
\* ------------------------------------------------------------------------
\* The last call of the work-mode select's async_select_option passed its
\* option to set_work_mode, and the call returned.
C18_ModeSet ==
    /\ ent.pc = "idle"
    /\ ent.entity = "select.work_mode"
    /\ ent.value \in WORK_MODES
    /\ ~ent.logged
    /\ ent.raised = "none"

\* No refresh is asked for or running, and the last one published a snapshot
\* that holds device 1.
C18_Refreshed ==
    /\ ~refresh.pending
    /\ cyc.pc = "idle"
    /\ last_result.res = "success"
    /\ 1 \in Range(devices)

\* C18: write-control round trip.  Once set_work_mode has succeeded for a
\* mode of the enum and the refresh asked for after it has published a
\* snapshot with the device's telemetry (the remote service echoing the mode
\* it was given), that telemetry holds the new mode and the work-mode select
\* reports it as its current option.
C18_RoundTrip ==
    (C18_ModeSet /\ C18_Refreshed) =>
        /\ \E n \in 1..Len(coord_data.devices) :
               /\ coord_data.devices[n].k = 1
               /\ coord_data.devices[n].v.data.workMode = ent.value
        /\ CurrentOption(1) = ent.value

\* Witness of C18: the select reports SELLING_FIRST, which it was given,
\* after the refresh that followed the write.
C18_SelectShowsNewMode ==
    /\ C18_ModeSet
    /\ C18_Refreshed
    /\ ent.value = "SELLING_FIRST"
    /\ ent.asked = 1
    /\ CurrentOption(1) = "SELLING_FIRST"

\* C19: every entity write (switch, select, number) whose client call
\* succeeds asks the coordinator for a refresh exactly once; a write whose
\* client call fails asks for none and lets no exception out to its caller.
C19_RefreshAfterWrite ==
    [][(ent.pc = "calling" /\ ent'.pc = "idle") =>
           IF rq["entity"].exc = "ok"
           THEN /\ ent'.asked = 1
                /\ refresh'.pending
                /\ ent'.raised = "none"
           ELSE /\ ent'.asked = 0
                /\ refresh' = refresh
                /\ ent'.raised = "none"]_vars

\* ------------------------------------------------------------------------
\* Properties of setup (SpecSetup)
\* ------------------------------------------------------------------------
\* The connection test of setup has failed.
C20_TestFailed ==
    /\ setup.pc \notin {"none", "testing"}
    /\ rq["caller"].exc # "ok"

\* C20: when the login call of setup's connection test fails (auth error,
\* API error, transport error), setup ends with ConfigEntryNotReady, the
\* client is closed, no coordinator is created, nothing is registered for the
\* entry and no refresh cycle is started.
C20_FailedTestIsNotReady ==
    C20_TestFailed =>
        /\ setup.pc = "ended"
        /\ setup.raised = "ConfigEntryNotReady"
        /\ setup.closed
        /\ ~setup.coordinator
        /\ ~setup.registered
        /\ ~setup.forwarded
        /\ cyc = Frame0
        /\ last_result.res = "none"
        /\ coord_data = NoSnapshot

\* ------------------------------------------------------------------------
\* Properties of concurrent calls (SpecConcurrent)
\* ------------------------------------------------------------------------
\* The tasks whose login call is in flight.
C22_LoggingIn == {t \in ConcurrentTasks : rq[t].phase = "login"}

\* C22 as claimed: single-flight login, at most one login call is in flight
\* at any time.
C22_SingleFlightLogin == Cardinality(C22_LoggingIn) <= 1

\* C22 as amended: a call logs in exactly when no valid token is cached at
\* the moment it starts, whatever the other task is doing, and it logs in at
\* most once.
C22_LoginPerCall ==
    [][\A t \in ConcurrentTasks :
           /\ rq'[t].logins <= 1
           /\ (rq[t].phase \in {"none", "done"} /\ rq'[t] # rq[t]) =>
                  ((rq'[t].phase = "login")
                       = NeedLogin(access_token, token_expiry, now))]_vars

\* Witness of C22: two login calls are in flight at once.
C22_TwoLoginsInFlight == Cardinality(C22_LoggingIn) = 2

\* ------------------------------------------------------------------------
\* Properties of station and device filtering (Spec)
\* ------------------------------------------------------------------------
\* The station list the discovery call of the cycle returned (the cycle that
\* runs, or the one that returned last).
C23_Discovered == IF heard = <<>> THEN <<>> ELSE heard[1].data.stations

\* The name contains d, e, m, o in a row, in either case.
C23_SaysDemo(name) ==
    LET letters == << {"d", "D"}, {"e", "E"}, {"m", "M"}, {"o", "O"} >> IN
    \E n \in 1..(Len(name) - 3) :
        \A k \in 1..4 : name[n + k - 1] \in letters[k]

\* Ids of the demo stations of the list, and the serials of their devices.
C23_DemoIds ==
    {C23_Discovered[n].id : n \in {m \in 1..Len(C23_Discovered) :
                                      C23_SaysDemo(C23_Discovered[m].name)}}
C23_DemoSerials ==
    UNION {{C23_Discovered[n].deviceListItems[d].deviceSn :
                d \in 1..Len(C23_Discovered[n].deviceListItems)} :
           n \in {m \in 1..Len(C23_Discovered) :
                      C23_SaysDemo(C23_Discovered[m].name)}}

\* The snapshot the cycle is building, or the one it published.
C23_Snapshot == IF cyc.pc = "idle" THEN coord_data ELSE cyc.data

\* C23: stations whose name contains 'demo' in any case are filtered out:
\* no station-telemetry, batch or configuration request goes out for them or
\* their devices, and neither they nor their devices are in the snapshot.
C23_DemoStationsFiltered ==
    /\ rq["cycle"].op = "get_station_latest_data" =>
           rq["cycle"].arg[1] \notin C23_DemoIds
    /\ rq["cycle"].op \in {"get_device_latest_data", "get_system_config",
                           "get_battery_config", "get_tou_config"} =>
           Range(rq["cycle"].arg) \cap C23_DemoSerials = {}
    /\ heard # <<>> =>
           /\ Range(DictKeys(C23_Snapshot.stations)) \cap C23_DemoIds = {}
           /\ Range(DictKeys(C23_Snapshot.devices)) \cap C23_DemoSerials = {}

\* Witness of C23: a list with the station DEMO was discovered and the cycle
\* published the station Barn and its device, not DEMO.
C23_DemoLeftOut ==
    /\ cyc.pc = "idle"
    /\ C23_Discovered = TopoMixed
    /\ C23_DemoIds = {1}
    /\ stations = <<2>>
    /\ devices = <<1>>

\* The serials of the device summaries that have one, in list order.
RECURSIVE C24_Serials(_)
C24_Serials(devs) ==
    IF devs = <<>> THEN <<>>
    ELSE IF Head(devs).deviceSn = 0 THEN C24_Serials(Tail(devs))
    ELSE <<Head(devs).deviceSn>> \o C24_Serials(Tail(devs))

\* C24: a device summary without a serial number is skipped.  Every batch
\* request is the slice of 10 of the serials the station's other summaries
\* carry, as if the summary were not listed; no configuration request goes
\* out for it and the snapshot does not hold it.
C24_SerialLessSkipped ==
    /\ cyc.pc = "batch" =>
           LET with == C24_Serials(cyc.stations_data[cyc.s].deviceListItems)
           IN /\ rq["cycle"].arg =
                     SubSeq(with, cyc.i + 1, Min(cyc.i + 10, Len(with)))
              /\ 0 \notin Range(rq["cycle"].arg)
    /\ cyc.pc \in {"system", "battery", "tou"} => rq["cycle"].arg # <<0>>
    /\ 0 \notin Range(DictKeys(C23_Snapshot.devices))

\* Witness of C24: the first batch of a station whose fifth summary has no
\* serial holds the ten serials of the summaries 1 to 4 and 6 to 11.
C24_TenBesideSerialLess ==
    /\ cyc.pc = "batch"
    /\ cyc.stations_data = TopoLarge
    /\ cyc.s = 1
    /\ cyc.i = 0
    /\ cyc.stations_data[1].deviceListItems[5].deviceSn = 0
    /\ rq["cycle"].arg = [k \in 1..10 |-> k]

\* ------------------------------------------------------------------------
\* Properties of configuration (SpecConfig)
\* ------------------------------------------------------------------------
\* C25: the coordinator's polling interval lies between 30 and 3600 seconds
\* and is the interval the user entered last, 60 seconds when the user
\* entered none.
C25_IntervalAsEntered ==
    setup.coordinator =>
        /\ setup.update_interval \in SCAN_INTERVAL_MIN..SCAN_INTERVAL_MAX
        /\ setup.update_interval = Filled(entry.entered, DEFAULT_SCAN_INTERVAL)

\* C26: setup of an entry that the user step created reaches the connection
\* test, with a client for the base URL of the entry's region.
C26_UserEntrySetsUp ==
    (entry.origin = "user" /\ setup.pc # "none") =>
        /\ setup.raised # "KeyError"
        /\ setup.base_url \in REGIONS
        /\ setup.base_url = entry.region

\* The write-control operations of the client that have an entity class.
C27_EntityWrites ==
    {"set_solar_sell", "set_battery_mode", "set_work_mode",
     "set_energy_pattern", "set_max_sell_power",
     "set_battery_charge_current", "set_battery_discharge_current"}

\* C27: after a successful setup every write-control operation that has an
\* entity class can be triggered, for each discovered device, through an
\* entity that setup added.
C27_EveryWriteHasEntity ==
    setup.pc = "done" =>
        \A op \in C27_EntityWrites : \A sn \in Range(devices) :
            <<op, sn>> \in setup.entities

\* The number of calls of the operations ops the running (or last returned)
\* cycle has made: those that ended, and the one in flight.
C28_Sent(ops) ==
    Cardinality({k \in 1..Len(heard) : heard[k].op \in ops})
      + (IF cyc.pc # "idle" /\ rq["cycle"].op \in ops THEN 1 ELSE 0)

\* The station list the cycle's discovery call returned.
C28_Listed ==
    IF cyc.pc \notin {"idle", "discovery"} THEN cyc.stations_data
    ELSE IF cyc.pc = "idle" /\ heard # <<>> THEN heard[1].data.stations
    ELSE <<>>

\* The sum over the stations sd[1..k] that are not demo stations of
\* ceil(n / 10), n the number of serials the station lists.
RECURSIVE C28_Batches(_, _)
C28_Batches(sd, k) ==
    IF k = 0 THEN 0
    ELSE C28_Batches(sd, k - 1)
           + (IF IsDemoName(sd[k].name) THEN 0
              ELSE (Len(DeviceSns(sd[k])) + BATCH_SIZE - 1) \div BATCH_SIZE)

\* The configuration calls made for a device that is not stored yet.
C28_InProgress ==
    CASE cyc.pc = "system" -> 1
      [] cyc.pc = "battery" -> 2
      [] cyc.pc = "tou" -> 3
      [] OTHER -> 0

\* The devices the cycle has stored so far (or has published).
C28_Stored ==
    IF cyc.pc = "idle" THEN Len(coord_data.devices)
    ELSE Len(cyc.data.devices)

\* The requests of one cycle are bounded: 1 discovery call, one telemetry
\* call per non-demo station, ceil(n/10) batch calls per station, 3
\* configuration calls per stored device, at most one login per call.
C28_RequestBound ==
    /\ C28_Sent({"get_station_list_with_devices"}) <= 1
    /\ C28_Sent({"get_station_latest_data"})
          <= Cardinality({k \in 1..Len(C28_Listed) :
                              ~IsDemoName(C28_Listed[k].name)})
    /\ C28_Sent({"get_device_latest_data"})
          <= C28_Batches(C28_Listed, Len(C28_Listed))
    /\ C28_Sent({"get_system_config", "get_battery_config", "get_tou_config"})
          <= 3 * C28_Stored + C28_InProgress
    /\ rq["cycle"].logins <= 1

\* Where the cycle stands, as a number that grows in the order of the code:
\* station, then its telemetry call before its batches, then the batch, then
\* the batch call before the devices' configuration, then the device, then
\* the configuration part, then the login before the API call.
C28_Position ==
    LET stage == IF cyc.pc \in {"discovery", "station_latest"} THEN 0 ELSE 1
        part == CASE cyc.pc = "system" -> 1
                  [] cyc.pc = "battery" -> 2
                  [] cyc.pc = "tou" -> 3
                  [] OTHER -> 0
        d == IF part = 0 THEN 0 ELSE cyc.d
        sent == IF rq["cycle"].phase = "login" THEN 0 ELSE 1
    IN (((((cyc.s * 2 + stage) * 100 + cyc.i) * 20 + d) * 4 + part) * 2)
         + sent

\* Every step of a running cycle ends it or moves it forward: no call is
\* made twice, so a cycle whose calls all return (a timeout returns as an
\* API error) ends after the bounded number of calls.
C28_Advances ==
    (cyc.pc # "idle" /\ <<cyc, rq["cycle"]>>' # <<cyc, rq["cycle"]>>)
        => (cyc'.pc = "idle" \/ C28_Position' > C28_Position)

\* A cycle ends in Success or in Failed (UpdateFailed), in nothing else.
C28_EndsInSuccessOrFailed ==
    last_result.res \in {"none", "refreshing", "success", "UpdateFailed"}

\* The bound and the advance of the cycle, without the kind of its end.
C28_BoundedAndAdvancing == [](C28_RequestBound) /\ [][C28_Advances]_vars

\* C28: every refresh cycle ends, in Success or Failed, provided each
\* network call returns or times out (a call that hangs ends as an error
\* after its own timeout), and the requests of one cycle are bounded by 1
\* discovery call, one telemetry call per non-demo station, ceil(n/10)
\* batch calls per station and 3 configuration calls per stored device,
\* each with at most one login.
C28_CycleTerminatesBounded ==
    /\ [](C28_EndsInSuccessOrFailed)
    /\ C28_BoundedAndAdvancing

\* The switch's turn_on or turn_off is awaiting its client call.
C29_Switching == ent.pc = "calling" /\ ent.entity = "switch.battery_mode"

\* C29: when a switch's turn_on or turn_off fails with an API error, the
\* switch's local state is again the value it had before the operation,
\* whatever the value was; the local state becomes the requested value only
\* when the API call has succeeded, and not before.
C29_RollbackOnFailedWrite ==
    [][/\ (C29_Switching /\ ent'.pc = "calling") => ent'.state = ent.state
       /\ (C29_Switching /\ ent'.pc = "idle")
             => ent'.state = IF rq["entity"].exc = "ok"
                             THEN ent.value ELSE ent.state]_vars

\* The step is a read of the switch's is_on.
C30_Reads == ent' # ent /\ rq' = rq

\* The keys of the switch the published snapshot holds a value under.
C30_Held == {k \in 1..7 : ChargeKeys(1)[k].t # "None"}

\* What a value under a recognised key means: a boolean itself; a string on
\* when it is one of 'true', '1', 'on', 'enabled', 'enable' in any case.
C30_Means(v) ==
    IF v.t = "bool" THEN OnOff(v.b)
    ELSE OnOff([n \in 1..Len(v.s) |-> Lower(v.s[n])] \in ON_WORDS)

\* C30: a switch reports the state the published snapshot holds whenever the
\* device's telemetry or configuration has a value under a recognised key
\* (booleans true and false, strings), and falls back to its cached state
\* only when the snapshot holds none.
C30_SnapshotBeforeCache ==
    [][C30_Reads
         => IF C30_Held # {}
            THEN ent'.shown \in {C30_Means(ChargeKeys(1)[k]) : k \in C30_Held}
            ELSE ent'.shown = ent.state]_vars

\* The step calls async_select_option of a select with an option that is
\* not of its enum.
C31_SelectsInvalid ==
    /\ ent'.writes = ent.writes + 1
    /\ ent'.entity \in {"select.work_mode", "select.energy_pattern"}
    /\ ent'.value \notin Options(ent'.entity)

\* C31: selecting a work mode outside the 3-value enum or an energy pattern
\* outside the 2-value enum issues no login, no API call and no refresh
\* request (the method has returned, the client and the remote service are
\* untouched), and the option the work-mode select reports as current is
\* always a member of its enum or none.
C31_EnumValidatedFirst ==
    /\ [][C31_SelectsInvalid
            => /\ rq' = rq
               /\ <<access_token, token_expiry, issued, srv>>'
                     = <<access_token, token_expiry, issued, srv>>
               /\ refresh' = refresh
               /\ ent'.pc = "idle" /\ ent'.asked = 0]_vars
    /\ [](CurrentOption(1) \in WORK_MODES \cup {"None"})

\* Witness of C31: async_select_option of the energy-pattern select was
\* called with ECO and has returned, with no client call made.
C31_InvalidPatternDropped ==
    /\ ent.pc = "idle"
    /\ ent.entity = "select.energy_pattern"
    /\ ent.value = "ECO"
    /\ ent.logged
    /\ rq["entity"] = IdleRq

\* C32: whenever obtain_token raises (non-success code, response without an
\* access token, network error, timeout), the cached token and its expiry
\* are exactly what they were before the call.
C32_FailedLoginKeepsCredential ==
    [][\A t \in Tasks :
          (rq[t].phase = "login" /\ rq'[t].phase = "done"
                /\ rq'[t].exc # "ok")
             => /\ access_token' = access_token
                /\ token_expiry' = token_expiry]_vars

\* Where the cycle stands: the call it awaits, by station index, batch
\* offset and device index.
C33_At ==
    CASE cyc.pc \in {"idle", "discovery"} -> <<cyc.pc>>
      [] cyc.pc = "station_latest" -> <<cyc.pc, cyc.s>>
      [] cyc.pc = "batch" -> <<cyc.pc, cyc.s, cyc.i>>
      [] OTHER -> <<cyc.pc, cyc.s, cyc.i, cyc.d>>

\* The request that belongs to the place the cycle stands at.
C33_Request ==
    LET st == cyc.stations_data[cyc.s]
        sns == C24_Serials(st.deviceListItems)
        upto == IF cyc.i + 10 < Len(sns) THEN cyc.i + 10 ELSE Len(sns)
        sn == st.deviceListItems[cyc.d].deviceSn
    IN CASE cyc.pc = "discovery" -> <<"get_station_list_with_devices", <<>> >>
         [] cyc.pc = "station_latest" -> <<"get_station_latest_data", <<st.id>> >>
         [] cyc.pc = "batch" ->
                <<"get_device_latest_data", SubSeq(sns, cyc.i + 1, upto)>>
         [] cyc.pc = "system" -> <<"get_system_config", <<sn>> >>
         [] cyc.pc = "battery" -> <<"get_battery_config", <<sn>> >>
         [] cyc.pc = "tou" -> <<"get_tou_config", <<sn>> >>

\* The telemetry call of the first station from index k on that is
\* processed (demo stations and stations without an id are not); the end of
\* the cycle when there is none.
C33_StationFrom(sd, k) ==
    LET rest == {n \in k..Len(sd) : ~IsDemoName(sd[n].name) /\ sd[n].id # 0}
    IN IF rest = {} THEN <<"idle">>
       ELSE <<"station_latest", CHOOSE n \in rest : \A m \in rest : n <= m>>

\* The batch of station s at offset i, the next station after the last batch.
C33_BatchFrom(sd, s, i) ==
    IF i < Len(C24_Serials(sd[s].deviceListItems)) THEN <<"batch", s, i>>
    ELSE C33_StationFrom(sd, s + 1)

\* The system configuration of the first device listed after index d0 whose
\* serial is a key of the batch response, the next batch when there is none.
C33_DeviceFrom(sd, s, i, d0, keys) ==
    LET devs == sd[s].deviceListItems
        rest == {n \in (d0 + 1)..Len(devs) : devs[n].deviceSn \in keys}
    IN IF rest = {} THEN C33_BatchFrom(sd, s, i + 10)
       ELSE <<"system", s, i, CHOOSE n \in rest : \A m \in rest : n <= m>>

\* The place that follows the one the cycle stands at, the call awaited
\* there having ended with outcome last.
C33_Successor(last) ==
    LET sd == cyc.stations_data IN
    CASE cyc.pc = "discovery" -> C33_StationFrom(last.data.stations, 1)
      [] cyc.pc = "station_latest" -> C33_BatchFrom(sd, cyc.s, 0)
      [] cyc.pc = "batch" ->
             IF last.exc = "ok"
             THEN C33_DeviceFrom(sd, cyc.s, cyc.i, 0, last.data.keys)
             ELSE C33_BatchFrom(sd, cyc.s, cyc.i + 10)
      [] cyc.pc = "system" -> <<"battery", cyc.s, cyc.i, cyc.d>>
      [] cyc.pc = "battery" -> <<"tou", cyc.s, cyc.i, cyc.d>>
      [] cyc.pc = "tou" ->
             C33_DeviceFrom(sd, cyc.s, cyc.i, cyc.d, DOMAIN cyc.device_data)

C34_ListsMatchSnapshot ==
    /\ [](coord_data.none = FALSE
            => /\ stations = DictKeys(coord_data.stations)
               /\ devices = DictKeys(coord_data.devices)
               /\ \A n \in 1..Len(coord_data.devices) :
                      DOMAIN coord_data.devices[n].v
                          = {"info", "data", "config"})
    /\ [][(cyc.pc # "idle" /\ cyc'.pc = "idle"
              /\ last_result'.res # "success")
            => Published' = Published]_vars

\* Witness of C34: a cycle has failed after one that published a device.
C34_FailedAfterPublished ==
    /\ cyc.pc = "idle"
    /\ last_result.res = "UpdateFailed"
    /\ coord_data.none = FALSE
    /\ devices # <<>>

\* The serials a batch response of the cycle that ends in this step held.
C35_Answered ==
    UNION {heard'[k].data.keys :
               k \in {n \in 1..Len(heard') :
                          /\ heard'[n].op = "get_device_latest_data"
                          /\ heard'[n].exc = "ok"}}

\* The ids of the stations of that cycle's discovery response that are not
\* demo stations.
C35_StationsListed ==
    {heard'[1].data.stations[n].id :
         n \in {m \in 1..Len(heard'[1].data.stations) :
                    ~IsDemoName(heard'[1].data.stations[m].name)}}

\* Serials and station ids entities can have been created for.
C35_Serials == 1..12
C35_StationIds == 0..2

\* C35: an entity of a device (station) is available exactly when the last
\* cycle succeeded and the serial (id) is a key of the published snapshot.
\* Hence after a cycle that failed no entity is available; after a cycle
\* that succeeded a device is available exactly when a batch response of
\* that cycle held it: a device whose batch failed is unavailable, and is
\* available again after the next cycle in which its batch succeeds; a
\* station is then available only if the cycle's discovery listed it.
C35_AvailableWhenRefreshed ==
    [][(cyc.pc # "idle" /\ cyc'.pc = "idle")
         => IF last_result'.res = "success"
            THEN /\ \A sn \in C35_Serials :
                        DeviceAvailable(sn)' <=> sn \in C35_Answered
                 /\ \A id \in C35_StationIds :
                        StationAvailable(id)' => id \in C35_StationsListed
            ELSE /\ \A sn \in C35_Serials : ~DeviceAvailable(sn)'
                 /\ \A id \in C35_StationIds : ~StationAvailable(id)']_vars

\* Witness of C35: device 1 of station Home is unavailable after a cycle
\* that succeeded although its batch failed.
C35_DroppedDeviceUnavailable ==
    /\ cyc.pc = "idle"
    /\ last_result.res = "success"
    /\ heard # <<>>
    /\ heard[1].data.stations = TopoHome
    /\ \E k \in 1..Len(heard) :
           heard[k].op = "get_device_latest_data" /\ heard[k].exc # "ok"
    /\ ~DeviceAvailable(1)

\* Setup has failed: an exception has left async_setup_entry.
C36_SetupFailed == setup.pc = "ended"

\* C36: whenever setup fails after the client was created, at the
\* connection test or at the first refresh, the client's session is closed
\* before setup returns; and async_unload_entry closes the session and
\* removes the entry's coordinator only when the platforms unloaded.
C36_NoSessionOutlivesSetup ==
    /\ [](C36_SetupFailed => ~SessionOpen)
    /\ [][(setup.pc = "done" /\ setup' # setup)
            => IF setup'.unload = "ok"
               THEN setup'.closed /\ ~setup'.registered
               ELSE /\ setup'.closed = setup.closed
                    /\ setup'.registered = setup.registered]_vars

====
